---- MODULE Spec2Model ----
(***************************************************************************)
(* EchoPilot / Codessa VS Code extension: the API client                   *)
(* (src/src/api/apiClient.ts) and its streaming chat reader.               *)
(*                                                                         *)
(* One CodessaApiClient object is modelled.  It holds the configuration    *)
(* read from the VS Code settings and the defaults of its axios instance.  *)
(* Each call of sendChatMessage is an invocation i \in Calls with its own  *)
(* promise, its own EventSource and its own closure variables              *)
(* (fullContent, actions).  The backend, the network and the callbacks'    *)
(* asynchronous work are the environment.                                  *)
(*                                                                         *)
(* Spec is the client with one caller of sendChatMessage.  SpecConfig is   *)
(* the client under changing settings, on the desktop and on the web       *)
(* (src/src/web/webExtension.ts).  SpecAdapters is the extension with the  *)
(* five handlers that call the client: the chat participant, the two       *)
(* handlers of the editor panel, the document policy check and the         *)
(* notebook cell execution.  SpecScan, SpecNotebook, SpecPanels and        *)
(* SpecStreams are the bulk policy scan, the notebook controller, the      *)
(* editor panels and two concurrent chat streams.  SpecLifecycle is the    *)
(* registration and disposal of the components, SpecChat the chat          *)
(* participant with its action handlers, SpecSaves the policy checks of    *)
(* overlapping saves, SpecNotebookFair the notebook controller whose       *)
(* awaits resume, and SpecRequests the notebook controller under execute   *)
(* requests that overlap.                                                  *)
(***************************************************************************)
EXTENDS Integers, Sequences, FiniteSets, TLC

(***************************************************************************)
(* Bounds of the model.                                                    *)
(***************************************************************************)
MaxEvents == 3    \* server-sent events delivered, all streams together
MaxRuns == 2      \* calls of checkPolicies / executePlaybookStep made by one adapter
MaxInvoked == 2   \* adapters the user invokes in one run of the extension
MaxFiles == 2     \* documents one bulk policy scan discovers
MaxCells == 2     \* cells of one execute request of the notebook
MaxPanels == 2    \* Monaco editor panels created in one run
MaxTicks == 1     \* milliseconds that pass while panels are created
MaxSaves == 3     \* saves whose policy checks overlap

\* the invocations of sendChatMessage the model keeps apart
Calls == {1, 2}
\* the invocations made under Spec
SpecCalls == {1}

(***************************************************************************)
(* Values.                                                                 *)
(***************************************************************************)
DefaultEndpoint == "https://api.codessa.dev"
DefaultApiKey == ""
DefaultStreamResponses == TRUE

\* a header / base URL that was never assigned on the axios instance
NotSet == "<not set>"

\* A VS Code setting is modelled as a set: {} when the key is not set,
\* {v} when it is set to v.
SettingsValues ==
    [ apiEndpoint : {{}},
      apiKey : {{"test-api-key"}},
      streamResponses : {{}, {FALSE}} ]

\* an apiEndpoint setting that is not a URL
MalformedEndpoint == "not a url"

\* the settings the configuration claims are checked with, among them the
\* values of the updateConfiguration tests
ConfigSettings ==
    [ apiEndpoint : {{}, {"https://new-api.codessa.dev"}, {MalformedEndpoint}},
      apiKey : {{}, {"new-test-key"}},
      streamResponses : {{}, {FALSE}},
      webApiEndpoint : {{}, {"https://web.codessa.dev"}} ]

\* vscodeConfig.get(key, defaultValue)
Get(setting, defaultValue) ==
    IF setting = {} THEN defaultValue ELSE CHOOSE v \in setting : TRUE

\* the three reads of updateConfiguration
ReadConfig(s) ==
    [ apiEndpoint |-> Get(s.apiEndpoint, DefaultEndpoint),
      apiKey |-> Get(s.apiKey, DefaultApiKey),
      streamResponses |-> Get(s.streamResponses, DefaultStreamResponses) ]

\* this.config.apiKey ? `Bearer ${this.config.apiKey}` : ''
AuthorizationValue(apiKey) ==
    IF apiKey # "" THEN "Bearer " \o apiKey ELSE ""

\* a refresh that assigns the Authorization header only when a key is set
ApplyConfig_keepToken(c, cfg) ==
    [c EXCEPT !.baseURL = cfg.apiEndpoint,
              !.authorization = IF cfg.apiKey # "" THEN AuthorizationValue(cfg.apiKey)
                                ELSE @]

\* if (this.client) { ... }: the two assignments to this.client.defaults
ApplyConfig(c, cfg) ==
    [c EXCEPT !.baseURL = cfg.apiEndpoint,
              !.authorization = AuthorizationValue(cfg.apiKey)]

\* config.get('webApiEndpoint') || config.get('apiEndpoint'): no default is
\* passed, a key that is not set reads as undefined, and a base URL that is
\* assigned undefined is a base URL that is not set
WebEndpoint(s) ==
    IF s.webApiEndpoint # {} /\ Get(s.webApiEndpoint, "") # ""
    THEN Get(s.webApiEndpoint, "")
    ELSE Get(s.apiEndpoint, NotSet)

\* a web set-up that flips the CORS headers instead of assigning them
setupWebCompatibility_toggle(c, s, web) ==
    IF web THEN [c EXCEPT !.baseURL = WebEndpoint(s), !.cors = ~@] ELSE c

\* WebCompatibleApiClient.setupWebCompatibility(); web is
\* vscode.env.uiKind === vscode.UIKind.Web
setupWebCompatibility(c, s, web) ==
    IF web THEN [c EXCEPT !.baseURL = WebEndpoint(s), !.cors = TRUE] ELSE c

\* ChatRequest objects passed by callers; stream is an optional field (the
\* chat participant passes stream: true, the editor panel passes none)
Requests ==
    [ message : {"Hello, world!"}, stream : {{}, {TRUE}} ]

\* a merge in the wrong order, { stream: v, ...request }
WithStream_keep(request, v) ==
    IF request.stream = {} THEN [request EXCEPT !.stream = {v}] ELSE request

\* { ...request, stream: v }
WithStream(request, v) == [request EXCEPT !.stream = {v}]

\* content chunks and actions the backend may stream
Chunks == {"Hello! ", "How can I help?"}
ActionValues ==
    { [type |-> "edit", target |-> "test.ts"],
      [type |-> "run", target |-> ""] }

\* the value of the JSON text null
JSNull == [null |-> TRUE]

\* event.data of the server-sent events, as the text's syntax tree;
\* json = FALSE is a text that is not JSON
EventData ==
    { [json |-> TRUE, value |-> [type |-> "content", content |-> c]] : c \in Chunks }
    \cup { [json |-> TRUE, value |-> [type |-> "action", action |-> a]] : a \in ActionValues }
    \cup { [json |-> TRUE, value |-> [type |-> "done"]],
           [json |-> TRUE, value |-> [type |-> "ping"]],
           [json |-> TRUE, value |-> JSNull],
           [json |-> FALSE, text |-> "not json"] }

\* JSON.parse(event.data): throws a SyntaxError on a text that is not JSON
JSONParse(d) ==
    IF d.json THEN [threw |-> FALSE, data |-> d.value] ELSE [threw |-> TRUE]

\* data.type: a TypeError on null, undefined on an object without the field
TypeThrows(data) == data = JSNull
TypeOf(data) == IF "type" \in DOMAIN data THEN data.type ELSE "undefined"

\* errors an axios request can fail with
PostErrors == {"Network error"}
StreamFailed == "Stream connection failed"

\* bodies the backend may answer POST /chat with
ChatResponses ==
    { [content |-> "Hello! How can I help?", actions |-> <<>>],
      [content |-> "", actions |-> <<[type |-> "run", target |-> ""]>>] }

(***************************************************************************)
(* Promises.                                                               *)
(***************************************************************************)
Pending == [state |-> "pending"]
Resolved(v) == [state |-> "resolved", value |-> v]
Rejected(e) == [state |-> "rejected", error |-> e]

\* resolve(v) / reject(e) of a promise: only the first settlement counts
Settle(p, outcome) == IF p.state = "pending" THEN outcome ELSE p

\* a reader that keeps only the last chunk
AppendContent_overwrite(full, c) == c

\* fullContent += data.content
AppendContent(full, c) == full \o c

\* a dispatch that forgets to test the chunk callback
UseStreaming_configOnly(cfg, onChunk) == cfg.streamResponses

\* the dispatch condition of sendChatMessage
UseStreaming(cfg, onChunk) == cfg.streamResponses /\ onChunk

\* no EventSource was constructed
NoEventSource == [created |-> FALSE, closed |-> FALSE, url |-> NotSet, authorization |-> NotSet]

(***************************************************************************)
(* The consumers of the client (the adapters) and what they call.          *)
(***************************************************************************)
\* handleChatRequest, handleAiAssist, handlePolicyCheck,
\* checkDocumentPolicies, executeSingleCell
Adapters == {"chat", "aiAssist", "policyCheck", "documentCheck", "cell"}
\* the adapters that call sendChatMessage
ChatAdapters == {"chat", "aiAssist"}
\* the adapters that call checkPolicies or executePlaybookStep
ToolAdapters == {"policyCheck", "documentCheck", "cell"}
\* the invocation of sendChatMessage the chat adapters make
AdapterCall == 1

\* bodies the backend may answer POST /policy/check with
PolicyViolations ==
    { <<>>,
      <<[line |-> 1, column |-> 5, message |-> "Policy violation",
         severity |-> "error", rule |-> "test-rule"]>>,
      <<[line |-> 3, column |-> 1, endLine |-> 4, endColumn |-> 9,
         message |-> "No console.log", severity |-> "warning", rule |-> "no-console"],
        [line |-> 1, column |-> 5, message |-> "Policy violation",
         severity |-> "error", rule |-> "test-rule"]>> }
PolicyResponses == { [violations |-> v] : v \in PolicyViolations }
\* the bodies answered to the adapters: no violation, or one
AdapterResponses == { data \in PolicyResponses : Len(data.violations) <= 1 }

\* PolicyCheckRequest of the document and of the editor panel
PolicyRequest ==
    [filePath |-> "/test/file.ts", content |-> "test content", language |-> "typescript"]

\* notebook cells: cell.document.languageId and cell.document.getText(),
\* the text as its syntax tree (json = FALSE is a text that is not JSON;
\* pairs are the `key: value` lines of a yaml text)
PlanCell ==
    [languageId |-> "json",
     text |-> [json |-> TRUE,
               value |-> [type |-> "plan", description |-> "Create a plan",
                          input |-> [task |-> "test"]]]]
InvalidJsonCell ==
    [languageId |-> "json", text |-> [json |-> FALSE, text |-> "invalid json"]]
NoInputCell ==
    [languageId |-> "json", text |-> [json |-> TRUE, value |-> [type |-> "plan"]]]
UnknownTypeCell ==
    [languageId |-> "json",
     text |-> [json |-> TRUE,
               value |-> [type |-> "unknown-type", input |-> [task |-> "test"]]]]
MarkdownCell ==
    [languageId |-> "markdown", text |-> [json |-> FALSE, text |-> "# This is markdown"]]
YamlCell ==
    [languageId |-> "yaml",
     text |-> [json |-> FALSE, pairs |-> [type |-> "test", description |-> "Run tests"]]]
Cells == {PlanCell, InvalidJsonCell, NoInputCell, UnknownTypeCell, MarkdownCell, YamlCell}
\* the cells executed in the model of the adapters
AdapterCells == {PlanCell, InvalidJsonCell}

\* the cells of one execute request
CellLists ==
    {<<>>} \cup { <<c>> : c \in Cells } \cup { <<c, d>> : c \in Cells, d \in Cells }
           \cup { <<c, d, e>> : c \in Cells, d \in Cells, e \in Cells }
ExecuteRequests == { l \in CellLists : Len(l) <= MaxCells }

\* a parser that takes any text for a step definition
parseCellContent_lenient(cell) ==
    IF cell.text.json THEN cell.text.value ELSE [type |-> "plan"]

\* private parseCellContent(cell): null when JSON.parse throws and for a
\* language that is neither json nor yaml
parseCellContent(cell) ==
    IF cell.languageId = "json"
    THEN IF JSONParse(cell.text).threw THEN JSNull ELSE JSONParse(cell.text).data
    ELSE IF cell.languageId = "yaml" THEN cell.text.pairs
    ELSE JSNull

\* the fields of the step definition that go into the PlaybookStep
StepFields == {"type", "description", "input"}

\* const step: PlaybookStep = {...} as the request body carries it (a field
\* that is undefined is left out of the JSON text); the id is not modelled
PlaybookStepOf(stepDefinition) ==
    [f \in (DOMAIN stepDefinition \cap StepFields) \cup {"status"} |->
        IF f = "status" THEN "pending" ELSE stepDefinition[f]]

\* what the backend answers POST /playbook/execute with: a step, or a body
\* without the field type
PlaybookResults ==
    { [type |-> "analyze", status |-> "completed"], [status |-> "completed"] }
\* the answers in the model of the adapters: steps
AdapterResults == { data \in PlaybookResults : "type" \in DOMAIN data }

\* the WebviewPanel objects, in the order of their creation
PanelObjects == 1..MaxPanels
\* the values of Date.now() while panels are created
Times == 0..MaxTicks
\* `monaco-${Date.now()}`
PanelId(t) == "monaco-" \o ToString(t)
PanelIds == {PanelId(t) : t \in Times}
\* this.panels.get(panelId) is undefined
NoPanel == 0
\* a WebviewPanel that createWebviewPanel has not returned yet
NoWebview == [created |-> FALSE, disposed |-> FALSE, panelId |-> "", time |-> 0,
              sent |-> 0, posted |-> <<>>, written |-> 0]
\* message.type of the messages a webview sends
MessageTypes == {"ai-assist", "policy-check", "save-content", "ready"}

\* no execute request was made
NoNotebook == [cells |-> <<>>, started |-> 0, active |-> FALSE]

\* the execute requests the model keeps apart when requests overlap
Runs == {1, 2}
\* the cells of the overlapping requests
OverlappingRequests ==
    { l \in ExecuteRequests : \A k \in 1..Len(l) : l[k] \in AdapterCells }
\* the execute handler was not called for the request
NoRequest == [state |-> "idle", cells |-> <<>>, started |-> 0, awaits |-> 0]

\* the events the backend streams to the chat participant in the model of
\* the adapters
AdapterEvents ==
    { [json |-> TRUE, value |-> [type |-> "content", content |-> "Hello! "]],
      [json |-> TRUE, value |-> [type |-> "done"]] }

\* no call of checkPolicies / executePlaybookStep was made
NoCall == [state |-> "none"]

\* vscode.TextDocument: uri and uri.scheme
Document(uri, scheme) == [uri |-> uri, scheme |-> scheme]
Documents ==
    { Document("/test/file1.ts", "file"), Document("/test/file2.ts", "file"),
      Document("/web/file.ts", "vscode-vfs"), Document("Untitled-1", "untitled") }
Uris == {d.uri : d \in Documents}
\* the documents the user saves
SavedDocuments == {Document("/test/file1.ts", "file"), Document("Untitled-1", "untitled")}

\* PolicyCheckRequest built by checkDocumentPolicies(document)
PolicyRequestOf(document) ==
    [filePath |-> document.uri, content |-> "test content", language |-> "typescript"]

\* private mapSeverity(severity)
mapSeverity(severity) ==
    CASE severity = "error" -> "Error"
      [] severity = "warning" -> "Warning"
      [] severity = "info" -> "Information"
      [] OTHER -> "Hint"

\* violation.endLine ? ... : ... and violation.endColumn ? ... : ...
EndLine(violation) ==
    IF "endLine" \in DOMAIN violation THEN violation.endLine - 1 ELSE violation.line - 1
EndColumn(violation) ==
    IF "endColumn" \in DOMAIN violation THEN violation.endColumn - 1
    ELSE violation.column + 10

\* the vscode.Diagnostic that updateDiagnostics builds from one violation
Diagnostic(violation) ==
    [range |-> <<violation.line - 1, violation.column - 1,
                 EndLine(violation), EndColumn(violation)>>,
     message |-> "[" \o violation.rule \o "] " \o violation.message,
     severity |-> mapSeverity(violation.severity),
     source |-> "GitGuard",
     code |-> violation.rule]

\* violations.map(violation => ...) of updateDiagnostics
ToDiagnostics(violations) == [k \in 1..Len(violations) |-> Diagnostic(violations[k])]

\* the diagnostic collection holds no entry for the document
NotPublished == [published |-> FALSE]
\* diagnosticCollection.set(uri, diagnostics)
Published(diags) == [published |-> TRUE, diagnostics |-> diags]

\* findFiles(...) of the desktop scan, vscode.workspace.textDocuments of the
\* web scan: sequences of distinct documents
DocumentLists ==
    {<<>>} \cup { <<d>> : d \in Documents }
           \cup { <<d, e>> : d \in Documents, e \in Documents }
           \cup { <<d, e, f>> : d \in Documents, e \in Documents, f \in Documents }
Distinct(seq) == \A j, k \in 1..Len(seq) : j # k => seq[j] # seq[k]
Discoverable == { l \in DocumentLists : Len(l) <= MaxFiles /\ Distinct(l) }

\* openDocuments of the web scan
OpenDocuments(docs) ==
    SelectSeq(docs, LAMBDA doc : doc.scheme # "untitled" /\ doc.scheme = "vscode-vfs")

\* the bulk scan before codessa.checkPolicies is run
NoScan ==
    [state |-> "idle", files |-> <<>>, index |-> 0, invoked |-> <<>>, completed |-> 0,
     cancelled |-> FALSE, notifications |-> <<>>, logged |-> <<>>]

VARIABLES
    config,        \* this.config
    client,        \* this.client.defaults: baseURL, Authorization and CORS headers
    isWeb,         \* vscode.env.uiKind === vscode.UIKind.Web
    args,          \* per call: the arguments and the streaming flag read at the call
    mode,          \* per call: "idle", "sync" or "stream"
    promise,       \* per call: the promise returned to the caller
    eventSource,   \* per call: the EventSource of streamChatMessage
    fullContent,   \* per call: the closure variable fullContent
    actions,       \* per call: the closure variable actions
    posts,         \* per call: the requests issued through this.client.post
    post,          \* per call: state of the request in flight
    chunkCalls,    \* per call: arguments of the onChunk invocations, in order
    actionCalls,   \* per call: arguments of the onAction invocations, in order
    running,       \* per call: indices of actionCalls whose handler is still working
    received,      \* per call: event.data of the events handled by onmessage
    handler,       \* per adapter: "idle", "awaiting", "completed" or "threw"
    toolPosts,     \* per adapter: the requests of checkPolicies / executePlaybookStep
    toolPromise,   \* per adapter: the promise of checkPolicies / executePlaybookStep
    surface,       \* per adapter: what is rendered in its UI surface
    diagnostics,   \* the diagnostic collection: the entry of every document
    scan,          \* checkAllPolicies: files, loop position, token, notifications,
                   \* files named by console.error in the loop
    notebook,      \* executeCell: the cells of the request and the loop position
    executions,    \* the NotebookCellExecutions created, in order
    executionOrder,\* PlaybookNotebookController.executionOrder
    requests,      \* per execute request that overlaps another: its cells, its
                   \* loop position and the execution it awaits
    panels,        \* MonacoEditorProvider.panels: Map<string, WebviewPanel>
    webviews,      \* per WebviewPanel: the panelId of its listeners, whether it
                   \* is disposed, the messages posted to its webview, the
                   \* messages received from it and the files written for them
    panelCalls,    \* per WebviewPanel: the request of its webview in progress
    disposed,      \* the components whose dispose() has run
    held,          \* per component: the vscode object in its field
                   \* (participant, diagnosticCollection, controller)
    thrown,        \* the components whose dispose() threw
    checks         \* the calls of checkDocumentPolicies made by overlapping
                   \* saves, in the order of the calls

clientVars == <<config, client, isWeb>>
callVars == <<args, mode, promise, eventSource, fullContent, actions, posts, post,
              chunkCalls, actionCalls, running, received>>
hostVars == <<handler, toolPosts, toolPromise, surface, diagnostics>>
scanVars == <<scan>>
notebookVars == <<notebook, executions, executionOrder, requests>>
panelVars == <<panels, webviews, panelCalls>>
ownerVars == <<disposed, held, thrown>>
saveVars == <<checks>>
extVars == <<scanVars, notebookVars, panelVars, ownerVars, saveVars>>
\* what the policy provider, the notebook controller and the editor
\* provider never touch
besidesScan == <<notebookVars, panelVars, ownerVars, saveVars>>
besidesNotebook == <<scanVars, panelVars, ownerVars, saveVars>>
besidesPanels == <<scanVars, notebookVars, ownerVars, saveVars>>
vars == <<config, client, isWeb, args, mode, promise, eventSource, fullContent,
          actions, posts, post, chunkCalls, actionCalls, running, received,
          handler, toolPosts, toolPromise, surface, diagnostics, scan,
          notebook, executions, executionOrder, requests, panels, webviews,
          panelCalls, disposed, held, thrown,
          checks>>

NoArgs == [request |-> [message |-> "", stream |-> {}], onChunk |-> FALSE,
           onAction |-> FALSE, streamResponses |-> FALSE]

\* the axios instance as axios.create() returns it
NewClient == [baseURL |-> NotSet, authorization |-> NotSet, cors |-> FALSE]

\* new CodessaApiClient(): updateConfiguration() runs before this.client
\* exists, so the axios defaults are not touched by the constructor; the
\* constructor of WebCompatibleApiClient then runs setupWebCompatibility()
Constructed(s, web) ==
    /\ config = ReadConfig(s)
    /\ client = setupWebCompatibility(NewClient, s, web)
    /\ isWeb = web

\* no call was made yet
InitCalls ==
    /\ args = [i \in Calls |-> NoArgs]
    /\ mode = [i \in Calls |-> "idle"]
    /\ promise = [i \in Calls |-> Pending]
    /\ eventSource = [i \in Calls |-> NoEventSource]
    /\ fullContent = [i \in Calls |-> ""]
    /\ actions = [i \in Calls |-> <<>>]
    /\ posts = [i \in Calls |-> <<>>]
    /\ post = [i \in Calls |-> "none"]
    /\ chunkCalls = [i \in Calls |-> <<>>]
    /\ actionCalls = [i \in Calls |-> <<>>]
    /\ running = [i \in Calls |-> {}]
    /\ received = [i \in Calls |-> <<>>]

\* the objects that deactivate() disposes
Components == {"chatParticipant", "policyProvider", "notebookController", "apiClient"}

\* the fields after the constructors: the policy provider creates its
\* diagnostic collection, participant and controller are not assigned, the
\* client holds no disposable
HeldAfterConstructor ==
    [c \in Components |-> IF c = "policyProvider" THEN "live" ELSE "undefined"]

\* the fields after activate(): chatParticipant.register() and
\* notebookController.register() have run
HeldAfterActivate ==
    [c \in Components |-> IF c = "apiClient" THEN "undefined" ELSE "live"]

\* the adapters, the scan, the notebook and the panels before any use
InitComponents ==
    /\ handler = [a \in Adapters |-> "idle"]
    /\ toolPosts = [a \in ToolAdapters |-> <<>>]
    /\ toolPromise = [a \in ToolAdapters |-> NoCall]
    /\ surface = [a \in Adapters |-> <<>>]
    /\ diagnostics = [u \in Uris |-> NotPublished]
    /\ scan = NoScan
    /\ notebook = NoNotebook
    /\ executions = <<>>
    /\ executionOrder = 0
    /\ requests = [r \in Runs |-> NoRequest]
    /\ panels = [id \in PanelIds |-> NoPanel]
    /\ webviews = [p \in PanelObjects |-> NoWebview]
    /\ panelCalls = [p \in PanelObjects |-> NoCall]
    /\ disposed = {}
    /\ thrown = {}
    /\ checks = <<>>

\* the adapters as activate() leaves them
InitHost ==
    /\ InitComponents
    /\ held = HeldAfterActivate

\* activate() of the desktop extension
Init ==
    /\ \E s \in SettingsValues : Constructed(s, FALSE)
    /\ InitCalls
    /\ InitHost

\* activate() of the desktop or of the web extension, any settings
InitConfig ==
    /\ \E s \in ConfigSettings, web \in BOOLEAN : Constructed(s, web)
    /\ InitCalls
    /\ InitHost

\* the axios defaults after updateConfiguration() under the settings s
Refreshed(c, s, web) == setupWebCompatibility(ApplyConfig(c, ReadConfig(s)), s, web)

\* a refresh that keeps the held value of every key that is not set
updateConfiguration_merge(s) ==
    /\ config' = [ apiEndpoint |-> Get(s.apiEndpoint, config.apiEndpoint),
                   apiKey |-> Get(s.apiKey, config.apiKey),
                   streamResponses |-> Get(s.streamResponses, config.streamResponses) ]
    /\ client' = setupWebCompatibility(ApplyConfig(client, config'), s, isWeb)
    /\ UNCHANGED <<isWeb, callVars, hostVars, extVars>>

\* updateConfiguration() of CodessaApiClient and of its subclass
\* WebCompatibleApiClient (super.updateConfiguration(), then
\* setupWebCompatibility()); s is what
\* vscode.workspace.getConfiguration('codessa') returns at the call;
\* this.client exists on every call after construction
updateConfiguration(s) ==
    /\ config' = ReadConfig(s)
    /\ client' = Refreshed(client, s, isWeb)
    /\ UNCHANGED <<isWeb, callVars, hostVars, extVars>>

\* this.client.post(path, body)
PostRequest(path, body) ==
    [path |-> path, body |-> body, baseURL |-> client.baseURL,
     authorization |-> client.authorization]

RECURSIVE SumLen(_, _)
SumLen(f, S) ==
    IF S = {} THEN 0
    ELSE LET i == CHOOSE j \in S : TRUE IN Len(f[i]) + SumLen(f, S \ {i})

\* events delivered so far, all streams together
Delivered == SumLen(received, Calls)

\* `${error}` of an Error object
ErrorString(message) == "Error: " \o message

\* private async sendChatMessageSync(request): the part up to the await
sendChatMessageSync(i, request) ==
    /\ posts' = [posts EXCEPT ![i] = Append(@, PostRequest("/chat", WithStream(request, FALSE)))]
    /\ post' = [post EXCEPT ![i] = "pending"]
    /\ promise' = [promise EXCEPT ![i] = Pending]
    /\ UNCHANGED <<eventSource, fullContent, actions>>

\* private async streamChatMessage(request, onChunk, onAction): the promise
\* executor, which runs synchronously inside the call
streamChatMessage(i, request, onChunk, onAction) ==
    /\ eventSource' = [eventSource EXCEPT ![i] =
            [created |-> TRUE, closed |-> FALSE,
             url |-> config.apiEndpoint \o "/chat/stream",
             authorization |-> AuthorizationValue(config.apiKey)]]
    /\ fullContent' = [fullContent EXCEPT ![i] = ""]
    /\ actions' = [actions EXCEPT ![i] = <<>>]
    /\ posts' = [posts EXCEPT ![i] =
            Append(@, PostRequest("/chat/stream/init", WithStream(request, TRUE)))]
    /\ post' = [post EXCEPT ![i] = "pending"]
    /\ promise' = [promise EXCEPT ![i] = Pending]

\* the invocations are numbered in the order of the calls
IsNextCall(i) == IF i = 1 THEN TRUE ELSE mode[i - 1] # "idle"

\* async sendChatMessage(request, onChunk?, onAction?); onChunk and onAction
\* say whether the callback is supplied
sendChatMessage(i, request, onChunk, onAction) ==
    /\ mode[i] = "idle"
    /\ IsNextCall(i)
    /\ args' = [args EXCEPT ![i] = [request |-> request, onChunk |-> onChunk,
                                    onAction |-> onAction,
                                    streamResponses |-> config.streamResponses]]
    /\ IF UseStreaming(config, onChunk)
       THEN /\ mode' = [mode EXCEPT ![i] = "stream"]
            /\ streamChatMessage(i, request, onChunk, onAction)
       ELSE /\ mode' = [mode EXCEPT ![i] = "sync"]
            /\ sendChatMessageSync(i, request)
    /\ UNCHANGED <<chunkCalls, actionCalls, running, received>>
    /\ UNCHANGED clientVars

\* sendChatMessageSync after the await: return response.data
chatPostResolved(i, data) ==
    /\ mode[i] = "sync" /\ post[i] = "pending"
    /\ post' = [post EXCEPT ![i] = "resolved"]
    /\ promise' = [promise EXCEPT ![i] = Settle(@, Resolved(data))]
    /\ UNCHANGED <<args, mode, eventSource, fullContent, actions, posts,
                   chunkCalls, actionCalls, running, received>>
    /\ UNCHANGED <<clientVars, hostVars, extVars>>

\* sendChatMessageSync, the catch block
chatPostRejected(i, err) ==
    /\ mode[i] = "sync" /\ post[i] = "pending"
    /\ post' = [post EXCEPT ![i] = "rejected"]
    /\ promise' = [promise EXCEPT ![i] =
            Settle(@, Rejected("Failed to send chat message: " \o ErrorString(err)))]
    /\ UNCHANGED <<args, mode, eventSource, fullContent, actions, posts,
                   chunkCalls, actionCalls, running, received>>
    /\ UNCHANGED <<clientVars, hostVars, extVars>>

\* the backend answers POST /chat/stream/init; no handler is attached
initPostResolved(i) ==
    /\ mode[i] = "stream" /\ post[i] = "pending"
    /\ post' = [post EXCEPT ![i] = "resolved"]
    /\ UNCHANGED <<args, mode, promise, eventSource, fullContent, actions, posts,
                   chunkCalls, actionCalls, running, received>>
    /\ UNCHANGED <<clientVars, hostVars, extVars>>

\* POST /chat/stream/init fails: .catch(reject)
initPostRejected(i, err) ==
    /\ mode[i] = "stream" /\ post[i] = "pending"
    /\ post' = [post EXCEPT ![i] = "rejected"]
    /\ promise' = [promise EXCEPT ![i] = Settle(@, Rejected(err))]
    /\ UNCHANGED <<args, mode, eventSource, fullContent, actions, posts,
                   chunkCalls, actionCalls, running, received>>
    /\ UNCHANGED <<clientVars, hostVars, extVars>>

\* eventSource.close()
Close(es) == [es EXCEPT !.closed = TRUE]

\* a catch block that gives up the stream on a malformed message
CatchParseError_abort(es) == Close(es)

\* catch (error) { console.error('Error parsing stream data:', error); }
\* what the catch block of onmessage does to the EventSource: nothing
CatchParseError(es) == es

\* an EventSource dispatches events until it is closed
Dispatching(es) == es.created /\ ~es.closed

\* an accumulator that is a field of the client, shared by its streams
Accumulated_shared(full, i, c) == [j \in DOMAIN full |-> AppendContent(full[j], c)]

\* fullContent += data.content: fullContent is a variable of the promise
\* executor, one for each invocation
Accumulated(full, i, c) == [full EXCEPT ![i] = AppendContent(@, c)]

\* eventSource.onmessage = (event) => { ... }, d is event.data
onmessage(i, d) ==
    /\ Dispatching(eventSource[i])
    /\ received' = [received EXCEPT ![i] = Append(@, d)]
    /\ LET parsed == JSONParse(d) IN
       IF parsed.threw \/ TypeThrows(parsed.data)
       THEN /\ eventSource' = [eventSource EXCEPT ![i] = CatchParseError(@)]
            /\ UNCHANGED <<promise, fullContent, actions,
                           chunkCalls, actionCalls, running>>
       ELSE LET data == parsed.data IN
            IF TypeOf(data) = "content"
            THEN /\ fullContent' = Accumulated(fullContent, i, data.content)
                 /\ chunkCalls' = [chunkCalls EXCEPT ![i] = Append(@, data.content)]
                 /\ UNCHANGED <<promise, eventSource, actions, actionCalls, running>>
            ELSE IF TypeOf(data) = "action" /\ args[i].onAction
            THEN /\ actions' = [actions EXCEPT ![i] = Append(@, data.action)]
                 /\ actionCalls' = [actionCalls EXCEPT ![i] = Append(@, data.action)]
                 /\ running' = [running EXCEPT ![i] = @ \cup {Len(actionCalls[i]) + 1}]
                 /\ UNCHANGED <<promise, eventSource, fullContent, chunkCalls>>
            ELSE IF TypeOf(data) = "done"
            THEN /\ eventSource' = [eventSource EXCEPT ![i] = Close(@)]
                 /\ promise' = [promise EXCEPT ![i] =
                        Settle(@, Resolved([content |-> fullContent[i],
                                            actions |-> actions[i]]))]
                 /\ UNCHANGED <<fullContent, actions, chunkCalls, actionCalls, running>>
            ELSE UNCHANGED <<promise, eventSource, fullContent, actions,
                             chunkCalls, actionCalls, running>>
    /\ UNCHANGED <<args, mode, posts, post>>
    /\ UNCHANGED <<clientVars, hostVars, extVars>>

\* eventSource.onerror = (error) => { ... }
onerror(i) ==
    /\ Dispatching(eventSource[i])
    /\ eventSource' = [eventSource EXCEPT ![i] = Close(@)]
    /\ promise' = [promise EXCEPT ![i] = Settle(@, Rejected(StreamFailed))]
    /\ UNCHANGED <<args, mode, fullContent, actions, posts, post,
                   chunkCalls, actionCalls, running, received>>
    /\ UNCHANGED <<clientVars, hostVars, extVars>>

\* the asynchronous work started by the k-th onAction invocation completes
\* (the caller's handler is async; onmessage does not await it)
actionHandlerDone(i, k) ==
    /\ k \in running[i]
    /\ running' = [running EXCEPT ![i] = @ \ {k}]
    /\ UNCHANGED <<args, mode, promise, eventSource, fullContent, actions, posts, post,
                   chunkCalls, actionCalls, received>>
    /\ UNCHANGED <<clientVars, hostVars, extVars>>

(***************************************************************************)
(* checkPolicies and executePlaybookStep, called by the adapter a.         *)
(***************************************************************************)
\* async checkPolicies(request): the part up to the await
checkPolicies(a, request) ==
    /\ toolPosts' = [toolPosts EXCEPT ![a] =
            Append(@, PostRequest("/policy/check", request))]
    /\ toolPromise' = [toolPromise EXCEPT ![a] = Pending]

\* checkPolicies after the await: return response.data.violations
checkPoliciesResolved(a, data) ==
    /\ toolPromise[a] = Pending
    /\ toolPromise' = [toolPromise EXCEPT ![a] = Resolved(data.violations)]
    /\ UNCHANGED <<handler, toolPosts, surface, diagnostics>>
    /\ UNCHANGED <<clientVars, callVars, extVars>>

\* checkPolicies, the catch block
checkPoliciesRejected(a, err) ==
    /\ toolPromise[a] = Pending
    /\ toolPromise' = [toolPromise EXCEPT ![a] =
            Rejected("Failed to check policies: " \o ErrorString(err))]
    /\ UNCHANGED <<handler, toolPosts, surface, diagnostics>>
    /\ UNCHANGED <<clientVars, callVars, extVars>>

\* async executePlaybookStep(step): the part up to the await
executePlaybookStep(a, step) ==
    /\ toolPosts' = [toolPosts EXCEPT ![a] =
            Append(@, PostRequest("/playbook/execute", step))]
    /\ toolPromise' = [toolPromise EXCEPT ![a] = Pending]

\* executePlaybookStep after the await: return response.data
executePlaybookStepResolved(a, data) ==
    /\ toolPromise[a] = Pending
    /\ toolPromise' = [toolPromise EXCEPT ![a] = Resolved(data)]
    /\ UNCHANGED <<handler, toolPosts, surface, diagnostics>>
    /\ UNCHANGED <<clientVars, callVars, extVars>>

\* executePlaybookStep, the catch block
executePlaybookStepRejected(a, err) ==
    /\ toolPromise[a] = Pending
    /\ toolPromise' = [toolPromise EXCEPT ![a] =
            Rejected("Failed to execute playbook step: " \o ErrorString(err))]
    /\ UNCHANGED <<handler, toolPosts, surface, diagnostics>>
    /\ UNCHANGED <<clientVars, callVars, extVars>>

(***************************************************************************)
(* The adapters.  Each one awaits one call of the client inside a try      *)
(* block; the action named ...Settled is the handler resuming after the    *)
(* await, in the try block or in its catch block.                          *)
(***************************************************************************)
Last(seq) == seq[Len(seq)]

\* the promise the adapter awaits
Awaited(a) == IF a \in ChatAdapters THEN promise[AdapterCall] ELSE toolPromise[a]

\* error instanceof Error ? error.message : '...': the client rejects with
\* Error objects only, a rejection is modelled by the message of its Error
ErrorMessage(e) == e

\* a handler whose catch block only logs
Render_logOnly(a, shown, item) ==
    IF item.kind \in {"error", "ai-error", "policy-error"} THEN shown
    ELSE IF a \in {"policyCheck", "cell"} THEN <<item>> ELSE Append(shown, item)

\* rendering an item in the surface of adapter a: the policy pane of the
\* editor panel (innerHTML = ...) and the cell output (replaceOutput) are
\* replaced; chat markdown, the AI pane of the editor panel (appendChild)
\* and the notifications are appended to
Render(a, shown, item) ==
    IF a \in {"policyCheck", "cell"} THEN <<item>> ELSE Append(shown, item)

\* an adapter is invoked when no invocation of it is in progress
Invocable(a) == handler[a] # "awaiting" /\ Len(toolPosts[a]) < MaxRuns

\* CodessaChatParticipant.handleChatRequest up to the await (the progress
\* line 'Thinking...' is not modelled); chunks are rendered by the onChunk
\* callback, so chunkCalls is the markdown of the answer
handleChatRequest(prompt) ==
    /\ handler["chat"] = "idle"
    /\ handler' = [handler EXCEPT !["chat"] = "awaiting"]
    /\ sendChatMessage(AdapterCall, [message |-> prompt, stream |-> {TRUE}], TRUE, TRUE)
    /\ UNCHANGED <<toolPosts, toolPromise, surface, diagnostics, extVars>>

\* handleChatRequest after the await
handleChatRequestSettled ==
    /\ handler["chat"] = "awaiting"
    /\ Awaited("chat").state \in {"resolved", "rejected"}
    /\ handler' = [handler EXCEPT !["chat"] = "completed"]
    /\ surface' = [surface EXCEPT !["chat"] =
            IF Awaited("chat").state = "rejected"
            THEN Render("chat", @, [kind |-> "error",
                        text |-> "**Error**: " \o ErrorMessage(Awaited("chat").error)])
            ELSE @]
    /\ UNCHANGED <<toolPosts, toolPromise, diagnostics>>
    /\ UNCHANGED <<clientVars, callVars, extVars>>

\* MonacoEditorProvider.handleAiAssist up to the await
handleAiAssist(prompt) ==
    /\ handler["aiAssist"] = "idle"
    /\ handler' = [handler EXCEPT !["aiAssist"] = "awaiting"]
    /\ sendChatMessage(AdapterCall, [message |-> prompt, stream |-> {}], FALSE, FALSE)
    /\ UNCHANGED <<toolPosts, toolPromise, surface, diagnostics, extVars>>

\* handleAiAssist after the await: panel.webview.postMessage, which the
\* script of the panel displays
handleAiAssistSettled ==
    /\ handler["aiAssist"] = "awaiting"
    /\ Awaited("aiAssist").state \in {"resolved", "rejected"}
    /\ handler' = [handler EXCEPT !["aiAssist"] = "completed"]
    /\ surface' = [surface EXCEPT !["aiAssist"] =
            IF Awaited("aiAssist").state = "rejected"
            THEN Render("aiAssist", @, [kind |-> "ai-error",
                        text |-> ErrorMessage(Awaited("aiAssist").error)])
            ELSE Render("aiAssist", @, [kind |-> "ai-response",
                        response |-> Awaited("aiAssist").value.content,
                        actions |-> Awaited("aiAssist").value.actions])]
    /\ UNCHANGED <<toolPosts, toolPromise, diagnostics>>
    /\ UNCHANGED <<clientVars, callVars, extVars>>

\* MonacoEditorProvider.handlePolicyCheck up to the await
handlePolicyCheck ==
    /\ Invocable("policyCheck")
    /\ handler' = [handler EXCEPT !["policyCheck"] = "awaiting"]
    /\ checkPolicies("policyCheck", PolicyRequest)
    /\ UNCHANGED <<surface, diagnostics>>
    /\ UNCHANGED <<clientVars, callVars, extVars>>

\* handlePolicyCheck after the await
handlePolicyCheckSettled ==
    /\ handler["policyCheck"] = "awaiting"
    /\ Awaited("policyCheck").state \in {"resolved", "rejected"}
    /\ handler' = [handler EXCEPT !["policyCheck"] = "completed"]
    /\ surface' = [surface EXCEPT !["policyCheck"] =
            IF Awaited("policyCheck").state = "rejected"
            THEN Render("policyCheck", @, [kind |-> "policy-error",
                        text |-> ErrorMessage(Awaited("policyCheck").error)])
            ELSE Render("policyCheck", @, [kind |-> "policy-violations",
                        violations |-> Awaited("policyCheck").value])]
    /\ UNCHANGED <<toolPosts, toolPromise, diagnostics>>
    /\ UNCHANGED <<clientVars, callVars, extVars>>

\* a check that is made whatever the scheme of the document
SkipsDocument_never(document) == FALSE

\* if (document.uri.scheme !== 'file') return;
SkipsDocument(document) == document.scheme # "file"

\* PolicyDiagnosticsProvider.checkDocumentPolicies(document) up to the
\* await; the caller (the save listener or the bulk scan) says what
\* becomes of scan
checkDocumentPolicies(document) ==
    /\ Invocable("documentCheck")
    /\ IF SkipsDocument(document)
       THEN UNCHANGED hostVars
       ELSE /\ handler' = [handler EXCEPT !["documentCheck"] = "awaiting"]
            /\ checkPolicies("documentCheck", PolicyRequestOf(document))
            /\ UNCHANGED <<surface, diagnostics>>
    /\ UNCHANGED <<clientVars, callVars, besidesScan>>

\* the document of the check in progress (the parameter of the suspended
\* call of checkDocumentPolicies)
CheckedUri == Last(toolPosts["documentCheck"]).body.filePath

\* a collection in which the new diagnostics are added to the old ones
updateDiagnostics_append(collection, uri, violations) ==
    [collection EXCEPT ![uri] =
        IF @.published THEN Published(@.diagnostics \o ToDiagnostics(violations))
        ELSE Published(ToDiagnostics(violations))]

\* private updateDiagnostics(uri, violations): the collection afterwards
updateDiagnostics(collection, uri, violations) ==
    [collection EXCEPT ![uri] = Published(ToDiagnostics(violations))]

\* checkDocumentPolicies after the await: updateDiagnostics(uri, violations)
\* in the try block, showErrorMessage in the catch block
checkDocumentPoliciesSettled ==
    /\ handler["documentCheck"] = "awaiting"
    /\ Awaited("documentCheck").state \in {"resolved", "rejected"}
    /\ handler' = [handler EXCEPT !["documentCheck"] = "completed"]
    /\ IF Awaited("documentCheck").state = "rejected"
       THEN /\ surface' = [surface EXCEPT !["documentCheck"] =
                    Render("documentCheck", @, [kind |-> "error",
                        text |-> "Failed to check policies: "
                                 \o ErrorString(Awaited("documentCheck").error)])]
            /\ UNCHANGED diagnostics
       ELSE /\ diagnostics' = updateDiagnostics(diagnostics, CheckedUri,
                                                 Awaited("documentCheck").value)
            /\ UNCHANGED surface
    /\ UNCHANGED <<toolPosts, toolPromise>>
    /\ UNCHANGED <<clientVars, callVars, extVars>>

\* the listener of onDidSaveTextDocument, with enablePolicyChecks left at
\* its default (true)
onDidSaveTextDocument(document) ==
    /\ checkDocumentPolicies(document)
    /\ UNCHANGED extVars

(***************************************************************************)
(* Saves in quick succession: every save calls checkDocumentPolicies, and  *)
(* a call does not wait for the calls made before it.  checks[k] is the    *)
(* k-th call: its document and the state of its await.                     *)
(***************************************************************************)
\* the listener of onDidSaveTextDocument runs while earlier checks are in
\* progress: checkDocumentPolicies(document) up to the await
saveDocument(document) ==
    /\ Len(checks) < MaxSaves
    /\ IF SkipsDocument(document)
       THEN UNCHANGED <<toolPosts, checks>>
       ELSE /\ toolPosts' = [toolPosts EXCEPT !["documentCheck"] =
                    Append(@, PostRequest("/policy/check", PolicyRequestOf(document)))]
            /\ checks' = Append(checks, [uri |-> document.uri, promise |-> Pending])
    /\ UNCHANGED <<handler, toolPromise, surface, diagnostics>>
    /\ UNCHANGED <<clientVars, callVars, scanVars, notebookVars, panelVars, ownerVars>>

\* the backend answers the k-th check and its call resumes in the try
\* block: updateDiagnostics(document.uri, violations)
checkAnswered(k, data) ==
    /\ k \in 1..Len(checks)
    /\ checks[k].promise = Pending
    /\ checks' = [checks EXCEPT ![k].promise = Resolved(data.violations)]
    /\ diagnostics' = updateDiagnostics(diagnostics, checks[k].uri, data.violations)
    /\ UNCHANGED <<handler, toolPosts, toolPromise, surface>>
    /\ UNCHANGED <<clientVars, callVars, scanVars, notebookVars, panelVars, ownerVars>>

\* the request of the k-th check fails and its call resumes in the catch
\* block: showErrorMessage
checkFailed(k, err) ==
    /\ k \in 1..Len(checks)
    /\ checks[k].promise = Pending
    /\ checks' = [checks EXCEPT ![k].promise =
            Rejected("Failed to check policies: " \o ErrorString(err))]
    /\ surface' = [surface EXCEPT !["documentCheck"] =
            Render("documentCheck", @, [kind |-> "error",
                text |-> "Failed to check policies: "
                         \o ErrorString(checks'[k].promise.error)])]
    /\ UNCHANGED <<handler, toolPosts, toolPromise, diagnostics>>
    /\ UNCHANGED <<clientVars, callVars, scanVars, notebookVars, panelVars, ownerVars>>

(***************************************************************************)
(* checkAllPolicies, the bulk scan of the command codessa.checkPolicies.   *)
(* scan.state is the position of the callback of withProgress: "loop" at   *)
(* the head of the for loop, "opening" in await openTextDocument,          *)
(* "checking" in await checkDocumentPolicies, "returned" after it.         *)
(***************************************************************************)
\* a loop that never looks at the token
Interrupted_never(s) == FALSE

\* if (token.isCancellationRequested) break;
Interrupted(s) == s.cancelled

\* a loop body that forgets to count
Completed_uncounted(s) == [s EXCEPT !.state = "loop"]

\* completed++ and progress.report(...)
Completed(s) == [s EXCEPT !.completed = @ + 1, !.state = "loop"]

Notify(s, kind, text) ==
    [s EXCEPT !.notifications = Append(@, [kind |-> kind, text |-> text])]

\* `Policy check completed. Checked ${completed} files.` and its web form
CompletedText(n) ==
    "Policy check completed. Checked " \o ToString(n)
        \o (IF isWeb THEN " open files." ELSE " files.")

\* checkAllPolicies() up to the first iteration; found is what findFiles
\* (desktop) or vscode.workspace.textDocuments (web) gives, folders says
\* whether a workspace folder is open
checkAllPolicies(found, folders) ==
    /\ scan.state = "idle"
    /\ scan' =
         IF isWeb
         THEN IF Len(OpenDocuments(found)) = 0
              THEN [Notify(scan, "warning", "No files are currently open.")
                       EXCEPT !.state = "returned"]
              ELSE [scan EXCEPT !.state = "loop", !.files = OpenDocuments(found)]
         ELSE IF ~folders
              THEN [Notify(scan, "warning", "No workspace folder open")
                       EXCEPT !.state = "returned"]
              ELSE [scan EXCEPT !.state = "loop", !.files = found]
    /\ UNCHANGED <<clientVars, callVars, hostVars, besidesScan>>

\* the user presses Cancel in the progress notification
cancel ==
    /\ scan.state \in {"loop", "opening", "checking"}
    /\ ~scan.cancelled
    /\ scan' = [scan EXCEPT !.cancelled = TRUE]
    /\ UNCHANGED <<clientVars, callVars, hostVars, besidesScan>>

\* the scan calls checkDocumentPolicies(document) and awaits it
scanCheck(document) ==
    /\ checkDocumentPolicies(document)
    /\ scan' = IF SkipsDocument(document)
               THEN Completed([scan EXCEPT !.invoked = Append(@, document.uri),
                                           !.index = @ + 1])
               ELSE [scan EXCEPT !.invoked = Append(@, document.uri),
                                 !.index = @ + 1, !.state = "checking"]

\* the head of the for loop and, when the loop is left, the lines after it
scanLoop ==
    /\ scan.state = "loop"
    /\ IF scan.index = Len(scan.files) \/ Interrupted(scan)
       THEN /\ scan' =
                 IF ~scan.cancelled
                 THEN [Notify(scan, "info", CompletedText(scan.completed))
                          EXCEPT !.state = "returned"]
                 ELSE [scan EXCEPT !.state = "returned"]
            /\ UNCHANGED <<clientVars, callVars, hostVars, besidesScan>>
       ELSE IF isWeb
            THEN /\ scanCheck(scan.files[scan.index + 1])
            ELSE /\ scan' = [scan EXCEPT !.state = "opening"]
                 /\ UNCHANGED <<clientVars, callVars, hostVars, besidesScan>>

\* await vscode.workspace.openTextDocument(file) gives the document
openTextDocumentResolved ==
    /\ scan.state = "opening"
    /\ scanCheck(scan.files[scan.index + 1])

\* await vscode.workspace.openTextDocument(file) throws: the catch block
\* of the loop body
openTextDocumentRejected ==
    /\ scan.state = "opening"
    /\ scan' = Completed([scan EXCEPT !.index = @ + 1,
                                      !.logged = Append(@, scan.files[scan.index + 1].uri)])
    /\ UNCHANGED <<clientVars, callVars, hostVars, besidesScan>>

\* the loop body resumes after await this.checkDocumentPolicies(document)
scanResumed ==
    /\ scan.state = "checking"
    /\ handler["documentCheck"] = "completed"
    /\ scan' = Completed(scan)
    /\ UNCHANGED <<clientVars, callVars, hostVars, besidesScan>>

(***************************************************************************)
(* The notebook controller: executeCell and executeSingleCell.             *)
(***************************************************************************)
\* if (!stepDefinition)
Rejects(stepDefinition) == stepDefinition = JSNull

\* a counter that is read and never advanced
Incremented_forgotten(n) == n

\* ++this.executionOrder
Incremented(n) == n + 1

\* createNotebookCellExecution(cell), executionOrder = ++this.executionOrder
\* and start()
Started(cell) ==
    [cell |-> cell, order |-> Incremented(executionOrder), state |-> "running",
     ends |-> 0]

\* execution.end(success) of the k-th execution; ends counts the calls
EndedAt(exs, k, success) ==
    [exs EXCEPT ![k].state = IF success THEN "succeeded" ELSE "failed",
                ![k].ends = @ + 1]

\* a catch block that leaves out execution.end(false)
Ended_onSuccessOnly(exs, success) ==
    IF success THEN EndedAt(exs, Len(exs), TRUE) ELSE exs

\* execution.end(success) of the execution created last
Ended(exs, success) == EndedAt(exs, Len(exs), success)

\* displayStepResult(execution, result) throws: result.type.toUpperCase()
\* is a TypeError when the answer has no type
DisplayThrows(result) == "type" \notin DOMAIN result
ToUpperCaseOfUndefined == "Cannot read properties of undefined (reading 'toUpperCase')"

\* PlaybookNotebookController.executeSingleCell(cell) up to the await or,
\* for a cell without a step definition, up to the return; the caller says
\* what becomes of notebook
executeSingleCell(cell) ==
    /\ Invocable("cell")
    /\ IF Rejects(parseCellContent(cell))
       THEN /\ surface' = [surface EXCEPT !["cell"] =
                    Render("cell", @, [kind |-> "error",
                                       text |-> "Invalid step definition"])]
            /\ executions' = Ended(Append(executions, Started(cell)), FALSE)
            /\ handler' = [handler EXCEPT !["cell"] = "completed"]
            /\ UNCHANGED <<toolPosts, toolPromise>>
       ELSE /\ surface' = [surface EXCEPT !["cell"] =
                    Render("cell", @, [kind |-> "progress",
                                       text |-> TypeOf(parseCellContent(cell))])]
            /\ executions' = Append(executions, Started(cell))
            /\ handler' = [handler EXCEPT !["cell"] = "awaiting"]
            /\ executePlaybookStep("cell", PlaybookStepOf(parseCellContent(cell)))
    /\ executionOrder' = Incremented(executionOrder)
    /\ UNCHANGED <<diagnostics, requests>>
    /\ UNCHANGED <<clientVars, callVars, besidesNotebook>>

\* executeSingleCell after the await: displayStepResult and
\* execution.end(true), or (after a rejection, or when displayStepResult
\* throws) the catch block and execution.end(false)
executeSingleCellSettled ==
    /\ handler["cell"] = "awaiting"
    /\ Awaited("cell").state \in {"resolved", "rejected"}
    /\ handler' = [handler EXCEPT !["cell"] = "completed"]
    /\ surface' = [surface EXCEPT !["cell"] =
            IF Awaited("cell").state = "rejected"
            THEN Render("cell", @, [kind |-> "error",
                        text |-> ErrorMessage(Awaited("cell").error)])
            ELSE IF DisplayThrows(Awaited("cell").value)
            THEN Render("cell", @, [kind |-> "error",
                        text |-> ErrorMessage(ToUpperCaseOfUndefined)])
            ELSE Render("cell", @, [kind |-> "result",
                        status |-> Awaited("cell").value.status])]
    /\ executions' = Ended(executions,
            /\ Awaited("cell").state = "resolved"
            /\ ~DisplayThrows(Awaited("cell").value))
    /\ UNCHANGED <<toolPosts, toolPromise, diagnostics, notebook, executionOrder, requests>>
    /\ UNCHANGED <<clientVars, callVars, besidesNotebook>>

\* the execute handler of the controller is called with the cells of the
\* request: executeCell(cells, notebook, controller) up to the loop
executeCell(cells) ==
    /\ ~notebook.active /\ notebook.started = 0
    /\ notebook' = [cells |-> cells, started |-> 0, active |-> TRUE]
    /\ UNCHANGED <<clientVars, callVars, hostVars, executions, executionOrder, requests, besidesNotebook>>

\* a loop that gives up after a cell that failed
executeCellLoop_stopOnFailure ==
    /\ notebook.active
    /\ handler["cell"] # "awaiting"
    /\ IF \/ notebook.started = Len(notebook.cells)
          \/ (executions # <<>> /\ Last(executions).state = "failed")
       THEN /\ notebook' = [notebook EXCEPT !.active = FALSE]
            /\ UNCHANGED <<clientVars, callVars, hostVars, executions, executionOrder, requests, besidesNotebook>>
       ELSE /\ executeSingleCell(notebook.cells[notebook.started + 1])
            /\ notebook' = [notebook EXCEPT !.started = @ + 1]

\* for (const cell of cells) { await this.executeSingleCell(cell); }: the
\* next iteration, or the return when no cell is left
executeCellLoop ==
    /\ notebook.active
    /\ handler["cell"] # "awaiting"
    /\ IF notebook.started = Len(notebook.cells)
       THEN /\ notebook' = [notebook EXCEPT !.active = FALSE]
            /\ UNCHANGED <<clientVars, callVars, hostVars, executions, executionOrder, requests, besidesNotebook>>
       ELSE /\ executeSingleCell(notebook.cells[notebook.started + 1])
            /\ notebook' = [notebook EXCEPT !.started = @ + 1]

(***************************************************************************)
(* Execute requests that overlap: the execute handler is called for the    *)
(* request r while another request is suspended in an await.  The          *)
(* executions of all requests are in executions, in the order of their     *)
(* creation; requests[r].awaits is the one the request r is suspended on.  *)
(***************************************************************************)
\* the answers and failures of one call of executePlaybookStep
StepOutcomes ==
    { Resolved(data) : data \in PlaybookResults }
    \cup { Rejected("Failed to execute playbook step: " \o ErrorString(err)) :
              err \in PostErrors }

\* the execute handler is called with the cells of the request r
executeCellCalled(r, cells) ==
    /\ requests[r].state = "idle"
    /\ requests' = [requests EXCEPT ![r] =
            [state |-> "loop", cells |-> cells, started |-> 0, awaits |-> 0]]
    /\ UNCHANGED <<notebook, executions, executionOrder>>
    /\ UNCHANGED <<clientVars, callVars, hostVars, besidesNotebook>>

\* the loop of the request r: the return when no cell is left, or
\* executeSingleCell(cell) of the next cell up to its await (or up to its
\* return for a cell without a step definition)
executeCellNext(r) ==
    /\ requests[r].state = "loop"
    /\ IF requests[r].started = Len(requests[r].cells)
       THEN /\ requests' = [requests EXCEPT ![r].state = "returned"]
            /\ UNCHANGED <<hostVars, executions, executionOrder>>
       ELSE LET cell == requests[r].cells[requests[r].started + 1] IN
            /\ executionOrder' = Incremented(executionOrder)
            /\ IF Rejects(parseCellContent(cell))
               THEN /\ surface' = [surface EXCEPT !["cell"] =
                            Render("cell", @, [kind |-> "error",
                                               text |-> "Invalid step definition"])]
                    /\ executions' = Ended(Append(executions, Started(cell)), FALSE)
                    /\ requests' = [requests EXCEPT ![r].started = @ + 1]
                    /\ UNCHANGED toolPosts
               ELSE /\ surface' = [surface EXCEPT !["cell"] =
                            Render("cell", @, [kind |-> "progress",
                                               text |-> TypeOf(parseCellContent(cell))])]
                    /\ executions' = Append(executions, Started(cell))
                    /\ toolPosts' = [toolPosts EXCEPT !["cell"] =
                            Append(@, PostRequest("/playbook/execute",
                                                  PlaybookStepOf(parseCellContent(cell))))]
                    /\ requests' = [requests EXCEPT
                            ![r].state = "awaiting",
                            ![r].awaits = Len(executions) + 1]
            /\ UNCHANGED <<handler, toolPromise, diagnostics>>
    /\ UNCHANGED notebook
    /\ UNCHANGED <<clientVars, callVars, besidesNotebook>>

\* the call of executePlaybookStep of the request r settles and
\* executeSingleCell resumes: displayStepResult and end(true), or the catch
\* block and end(false)
executeSingleCellResumed(r, outcome) ==
    /\ requests[r].state = "awaiting"
    /\ LET success == outcome.state = "resolved" /\ ~DisplayThrows(outcome.value) IN
       /\ surface' = [surface EXCEPT !["cell"] =
               IF outcome.state = "rejected"
               THEN Render("cell", @, [kind |-> "error",
                                       text |-> ErrorMessage(outcome.error)])
               ELSE IF DisplayThrows(outcome.value)
               THEN Render("cell", @, [kind |-> "error",
                                       text |-> ErrorMessage(ToUpperCaseOfUndefined)])
               ELSE Render("cell", @, [kind |-> "result",
                                       status |-> outcome.value.status])]
       /\ executions' = EndedAt(executions, requests[r].awaits, success)
    /\ requests' = [requests EXCEPT ![r].state = "loop", ![r].started = @ + 1,
                                    ![r].awaits = 0]
    /\ UNCHANGED <<handler, toolPosts, toolPromise, diagnostics>>
    /\ UNCHANGED <<notebook, executionOrder>>
    /\ UNCHANGED <<clientVars, callVars, besidesNotebook>>

(***************************************************************************)
(* deactivate() and the dispose() methods it calls.                        *)
(***************************************************************************)
\* what chatParticipant.dispose() and apiClient.dispose() do to the
\* EventSource of a stream: nothing (the body of apiClient.dispose() is a
\* comment, the participant disposes its vscode.ChatParticipant)
Disposal(es) == es

\* calling dispose() of the component c throws: this.controller.dispose()
\* is a TypeError while this.controller is undefined
DisposeThrows(c, h) == c = "notebookController" /\ h = "undefined"

\* the field of the component c after its dispose(), h before it:
\* if (this.participant) this.participant.dispose(),
\* this.diagnosticCollection.dispose(), this.controller.dispose(), and the
\* empty body of CodessaApiClient.dispose()
Disposing(c, h) ==
    CASE c = "chatParticipant" -> IF h # "undefined" THEN "disposed" ELSE h
      [] c = "policyProvider" -> "disposed"
      [] c = "notebookController" -> IF h = "undefined" THEN h ELSE "disposed"
      [] OTHER -> h

\* register() of the chat participant or of the notebook controller: the
\* field is assigned a new participant / controller
register(c) ==
    /\ c \in {"chatParticipant", "notebookController"}
    /\ held[c] = "undefined"
    /\ held' = [held EXCEPT ![c] = "live"]
    /\ UNCHANGED <<disposed, thrown>>
    /\ UNCHANGED <<clientVars, callVars, hostVars, scanVars, notebookVars, panelVars, saveVars>>

\* the Disposable that register() returned is disposed by its owner (it is
\* the participant, the controller, or a Disposable made from the
\* diagnostic collection)
subscriptionDisposed(c) ==
    /\ c \in {"chatParticipant", "policyProvider", "notebookController"}
    /\ held[c] = "live"
    /\ held' = [held EXCEPT ![c] = "disposed"]
    /\ UNCHANGED <<disposed, thrown>>
    /\ UNCHANGED <<clientVars, callVars, hostVars, scanVars, notebookVars, panelVars, saveVars>>

\* dispose() of the component c
dispose(c) ==
    /\ c \notin disposed
    /\ disposed' = disposed \cup {c}
    /\ held' = [held EXCEPT ![c] = Disposing(c, @)]
    /\ thrown' = IF DisposeThrows(c, held[c]) THEN thrown \cup {c} ELSE thrown
    /\ UNCHANGED <<clientVars, callVars, hostVars, scanVars, notebookVars, panelVars, saveVars>>

\* export function deactivate(): the chat participant, the policy
\* provider, the notebook controller and the client are disposed
deactivate ==
    /\ disposed = {}
    /\ disposed' = Components
    /\ held' = [c \in Components |-> Disposing(c, held[c])]
    /\ thrown' = thrown \cup {c \in Components : DisposeThrows(c, held[c])}
    /\ eventSource' = [i \in Calls |-> Disposal(eventSource[i])]
    /\ UNCHANGED <<args, mode, promise, fullContent, actions, posts, post,
                   chunkCalls, actionCalls, running, received>>
    /\ UNCHANGED <<clientVars, hostVars, scanVars, notebookVars, panelVars, saveVars>>

(***************************************************************************)
(* MonacoEditorProvider: the panels and the messages of their webviews.    *)
(***************************************************************************)
\* the panels created so far
Created == {p \in PanelObjects : webviews[p].created}
\* Date.now() never goes back
Latest == IF Created = {} THEN 0
          ELSE CHOOSE t \in Times : /\ \E p \in Created : webviews[p].time = t
                                    /\ \A p \in Created : webviews[p].time <= t

\* createEditorPanel(...) called at the time t; p is the new WebviewPanel
createEditorPanel(p, t) ==
    /\ ~webviews[p].created
    /\ \A q \in PanelObjects : q < p => webviews[q].created
    /\ t >= Latest
    /\ panels' = [panels EXCEPT ![PanelId(t)] = p]
    /\ webviews' = [webviews EXCEPT ![p] =
            [NoWebview EXCEPT !.created = TRUE, !.panelId = PanelId(t), !.time = t]]
    /\ UNCHANGED panelCalls
    /\ UNCHANGED <<clientVars, callVars, hostVars, besidesPanels>>

\* the listener of panel.onDidDispose: this.panels.delete(panelId)
onDidDispose(p) ==
    /\ webviews[p].created /\ ~webviews[p].disposed
    /\ panels' = [panels EXCEPT ![webviews[p].panelId] = NoPanel]
    /\ webviews' = [webviews EXCEPT ![p].disposed = TRUE]
    /\ UNCHANGED panelCalls
    /\ UNCHANGED <<clientVars, callVars, hostVars, besidesPanels>>

\* message.data.requestId of the next message of the webview of p (the
\* script of the panel numbers its requests; the model counts them)
RequestId(p) == webviews[p].sent + 1

\* the listener of panel.webview.onDidReceiveMessage of the panel p:
\* handleWebviewMessage(panelId, message) up to the await of handleAiAssist
\* or of handlePolicyCheck, or through handleSaveContent (data.fileName
\* and data.content are given, writeFile is counted); a message that was
\* on its way when the panel was disposed still arrives
handleWebviewMessage(p, type) ==
    /\ webviews[p].created
    /\ panelCalls[p] = NoCall
    /\ webviews[p].sent < MaxRuns
    /\ LET panel == panels[webviews[p].panelId]
       IN /\ webviews' = [webviews EXCEPT
                 ![p].sent = @ + 1,
                 ![p].written = IF panel # NoPanel /\ type = "save-content"
                                THEN @ + 1 ELSE @]
          /\ IF panel = NoPanel \/ type \notin {"ai-assist", "policy-check"}
             THEN UNCHANGED panelCalls
             ELSE panelCalls' = [panelCalls EXCEPT ![p] =
                      [state |-> "pending", type |-> type, panel |-> panel,
                       requestId |-> RequestId(p),
                       path |-> IF type = "ai-assist" THEN "/chat"
                                ELSE "/policy/check"]]
    /\ UNCHANGED panels
    /\ UNCHANGED <<clientVars, callVars, hostVars, besidesPanels>>

\* panel.webview.postMessage(message) of the handler started by the
\* webview of origin
PostMessage(views, panel, origin, message) ==
    [views EXCEPT ![panel].posted =
        Append(@, [origin |-> origin, message |-> message,
                   requestId |-> panelCalls[origin].requestId])]

\* handleAiAssist / handlePolicyCheck after the await, in the try block
panelCallResolved(p) ==
    /\ panelCalls[p] # NoCall
    /\ webviews' = PostMessage(webviews, panelCalls[p].panel, p,
            IF panelCalls[p].type = "ai-assist" THEN "ai-response" ELSE "policy-violations")
    /\ panelCalls' = [panelCalls EXCEPT ![p] = NoCall]
    /\ UNCHANGED panels
    /\ UNCHANGED <<clientVars, callVars, hostVars, besidesPanels>>

\* handleAiAssist / handlePolicyCheck after the await, in the catch block
panelCallRejected(p) ==
    /\ panelCalls[p] # NoCall
    /\ webviews' = PostMessage(webviews, panelCalls[p].panel, p,
            IF panelCalls[p].type = "ai-assist" THEN "ai-error" ELSE "policy-error")
    /\ panelCalls' = [panelCalls EXCEPT ![p] = NoCall]
    /\ UNCHANGED panels
    /\ UNCHANGED <<clientVars, callVars, hostVars, besidesPanels>>

Next ==
    \/ \E s \in SettingsValues : updateConfiguration(s)
    \/ \E i \in SpecCalls, r \in Requests, onChunk \in BOOLEAN, onAction \in BOOLEAN :
          sendChatMessage(i, r, onChunk, onAction) /\ UNCHANGED <<hostVars, extVars>>
    \/ \E i \in SpecCalls, data \in ChatResponses : chatPostResolved(i, data)
    \/ \E i \in SpecCalls, err \in PostErrors : chatPostRejected(i, err)
    \/ \E i \in SpecCalls : initPostResolved(i)
    \/ \E i \in SpecCalls, err \in PostErrors : initPostRejected(i, err)
    \/ \E i \in SpecCalls, d \in EventData : Delivered < MaxEvents /\ onmessage(i, d)
    \/ \E i \in SpecCalls : onerror(i)
    \/ \E i \in SpecCalls, k \in 1..MaxEvents : actionHandlerDone(i, k)

Spec == Init /\ [][Next]_vars

\* the adapters invoked so far
Invoked == {a \in Adapters : handler[a] # "idle"}
\* the user may invoke adapter a
MayInvoke(a) == a \in Invoked \/ Cardinality(Invoked) < MaxInvoked

\* the extension with its adapters; the settings do not change
NextAdapters ==
    \/ \E r \in Requests : MayInvoke("chat") /\ handleChatRequest(r.message)
    \/ handleChatRequestSettled
    \/ \E r \in Requests : MayInvoke("aiAssist") /\ handleAiAssist(r.message)
    \/ handleAiAssistSettled
    \/ MayInvoke("policyCheck") /\ handlePolicyCheck
    \/ handlePolicyCheckSettled
    \/ \E document \in SavedDocuments :
          MayInvoke("documentCheck") /\ onDidSaveTextDocument(document)
    \/ checkDocumentPoliciesSettled
    \/ \E cell \in AdapterCells :
          /\ MayInvoke("cell") /\ Len(executions) < MaxRuns
          /\ executeSingleCell(cell) /\ UNCHANGED notebook
    \/ executeSingleCellSettled
    \/ \E a \in {"policyCheck", "documentCheck"}, data \in AdapterResponses :
          checkPoliciesResolved(a, data)
    \/ \E a \in {"policyCheck", "documentCheck"}, err \in PostErrors :
          checkPoliciesRejected(a, err)
    \/ \E data \in AdapterResults : executePlaybookStepResolved("cell", data)
    \/ \E err \in PostErrors : executePlaybookStepRejected("cell", err)
    \/ \E data \in ChatResponses : chatPostResolved(AdapterCall, data)
    \/ \E err \in PostErrors : chatPostRejected(AdapterCall, err)
    \/ initPostResolved(AdapterCall)
    \/ \E err \in PostErrors : initPostRejected(AdapterCall, err)
    \/ \E d \in AdapterEvents : Delivered < MaxEvents /\ onmessage(AdapterCall, d)
    \/ onerror(AdapterCall)

SpecAdapters == Init /\ [][NextAdapters]_vars

\* the client under changing settings, on the desktop and on the web
NextConfig ==
    \/ \E s \in ConfigSettings : updateConfiguration(s)
    \/ \E r \in Requests, onChunk \in BOOLEAN :
          sendChatMessage(AdapterCall, r, onChunk, FALSE) /\ UNCHANGED <<hostVars, extVars>>
    \/ handlePolicyCheck

SpecConfig == InitConfig /\ [][NextConfig]_vars

\* the settings under which the bulk scan is run
ScanSettings ==
    {s \in ConfigSettings : s.apiEndpoint = {} /\ s.apiKey = {} /\ s.streamResponses = {}}

\* activate() of the desktop or of the web extension, for the bulk scan
InitScan ==
    /\ \E s \in ScanSettings, web \in BOOLEAN : Constructed(s, web)
    /\ InitCalls
    /\ InitHost

\* the policy provider: the save listener and the bulk scan
NextScan ==
    \/ \E document \in SavedDocuments : onDidSaveTextDocument(document)
    \/ checkDocumentPoliciesSettled
    \/ \E data \in PolicyResponses : checkPoliciesResolved("documentCheck", data)
    \/ \E err \in PostErrors : checkPoliciesRejected("documentCheck", err)
    \/ \E found \in Discoverable, folders \in BOOLEAN : checkAllPolicies(found, folders)
    \/ cancel
    \/ scanLoop
    \/ openTextDocumentResolved
    \/ openTextDocumentRejected
    \/ scanResumed

SpecScan == InitScan /\ [][NextScan]_vars

\* the notebook controller executing one request
NextNotebook ==
    \/ \E cells \in ExecuteRequests : executeCell(cells)
    \/ executeCellLoop
    \/ executeSingleCellSettled
    \/ \E data \in PlaybookResults : executePlaybookStepResolved("cell", data)
    \/ \E err \in PostErrors : executePlaybookStepRejected("cell", err)

SpecNotebook == Init /\ [][NextNotebook]_vars

\* the continuation of executeSingleCell runs once its promise is settled
\* (the job queue of the extension host); the backend owes no answer
SpecNotebookFair == SpecNotebook /\ WF_vars(executeSingleCellSettled)

\* the editor provider with its panels
NextPanels ==
    \/ \E p \in PanelObjects, t \in Times : createEditorPanel(p, t)
    \/ \E p \in PanelObjects : onDidDispose(p)
    \/ \E p \in PanelObjects, type \in MessageTypes : handleWebviewMessage(p, type)
    \/ \E p \in PanelObjects : panelCallResolved(p)
    \/ \E p \in PanelObjects : panelCallRejected(p)

SpecPanels == Init /\ [][NextPanels]_vars

\* activate() under settings that leave streaming on
InitStreams ==
    /\ \E s \in {t \in SettingsValues : t.streamResponses = {}} : Constructed(s, FALSE)
    /\ InitCalls
    /\ InitHost

\* the events of the streams in the model of concurrent invocations
StreamEvents ==
    { [json |-> TRUE, value |-> [type |-> "content", content |-> "Hello! "]],
      [json |-> TRUE, value |-> [type |-> "action", action |-> CHOOSE a \in ActionValues : TRUE]],
      [json |-> TRUE, value |-> [type |-> "done"]] }

\* the requests of the concurrent invocations
StreamRequests == {r \in Requests : r.stream = {TRUE}}

\* two invocations of sendChatMessage that stream concurrently, and the
\* deactivation of the extension
NextStreams ==
    \/ \E i \in Calls, r \in StreamRequests :
          sendChatMessage(i, r, TRUE, TRUE) /\ UNCHANGED <<hostVars, extVars>>
    \/ \E i \in Calls : initPostResolved(i)
    \/ \E i \in Calls, err \in PostErrors : initPostRejected(i, err)
    \/ \E i \in Calls, d \in StreamEvents : Delivered < MaxEvents /\ onmessage(i, d)
    \/ \E i \in Calls : onerror(i)
    \/ \E i \in Calls, k \in 1..MaxEvents : actionHandlerDone(i, k)
    \/ deactivate

SpecStreams == InitStreams /\ [][NextStreams]_vars

\* the chat participant answering one request, the backend streaming
\* content and actions
NextChat ==
    \/ \E r \in Requests : handleChatRequest(r.message)
    \/ handleChatRequestSettled
    \/ initPostResolved(AdapterCall)
    \/ \E err \in PostErrors : initPostRejected(AdapterCall, err)
    \/ \E d \in EventData : Delivered < MaxEvents /\ onmessage(AdapterCall, d)
    \/ onerror(AdapterCall)
    \/ \E k \in 1..MaxEvents : actionHandlerDone(AdapterCall, k)

SpecChat == InitStreams /\ [][NextChat]_vars

\* the policy provider under saves that follow each other before the
\* checks of the earlier ones have returned
NextSaves ==
    \/ \E document \in Documents : saveDocument(document)
    \/ \E k \in 1..MaxSaves, data \in PolicyResponses : checkAnswered(k, data)
    \/ \E k \in 1..MaxSaves, err \in PostErrors : checkFailed(k, err)

SpecSaves == Init /\ [][NextSaves]_vars

\* the notebook controller under execute requests that overlap
NextRequests ==
    \/ \E r \in Runs, cells \in OverlappingRequests : executeCellCalled(r, cells)
    \/ \E r \in Runs : executeCellNext(r)
    \/ \E r \in Runs, outcome \in StepOutcomes : executeSingleCellResumed(r, outcome)

SpecRequests == Init /\ [][NextRequests]_vars

\* the components as their constructors leave them, before any register()
InitLifecycle ==
    /\ \E s \in SettingsValues : Constructed(s, FALSE)
    /\ InitCalls
    /\ InitComponents
    /\ held = HeldAfterConstructor

\* register() and dispose() of the components, called in any order
NextLifecycle ==
    \/ \E c \in Components : register(c)
    \/ \E c \in Components : subscriptionDisposed(c)
    \/ \E c \in Components : dispose(c)

SpecLifecycle == InitLifecycle /\ [][NextLifecycle]_vars

(***************************************************************************)
(* What the backend sent, read off the events handled so far.              *)
(***************************************************************************)
IsContent(d) == d.json /\ TypeOf(d.value) = "content"
IsAction(d) == d.json /\ TypeOf(d.value) = "action"
IsDone(d) == d.json /\ TypeOf(d.value) = "done"
\* not valid JSON, or a type that is not content, action or done
IsSkipped(d) == ~d.json \/ TypeOf(d.value) \notin {"content", "action", "done"}

RECURSIVE ContentsOf(_)
ContentsOf(evs) ==
    IF evs = <<>> THEN <<>>
    ELSE IF IsContent(Head(evs))
         THEN <<Head(evs).value.content>> \o ContentsOf(Tail(evs))
         ELSE ContentsOf(Tail(evs))

RECURSIVE ActionsOf(_)
ActionsOf(evs) ==
    IF evs = <<>> THEN <<>>
    ELSE IF IsAction(Head(evs))
         THEN <<Head(evs).value.action>> \o ActionsOf(Tail(evs))
         ELSE ActionsOf(Tail(evs))

RECURSIVE Concat(_)
Concat(strs) == IF strs = <<>> THEN "" ELSE Head(strs) \o Concat(Tail(strs))

\* the step handles one more event of stream i
Handles(i) == Len(received'[i]) = Len(received[i]) + 1
Settled(p) == p.state \in {"resolved", "rejected"}
Endpoints == {ReadConfig(s).apiEndpoint : s \in SettingsValues}

(***************************************************************************)
(* C1: sendChatMessage runs in streaming mode (one EventSource on          *)
(* <endpoint>/chat/stream, exactly one POST /chat/stream/init whose body   *)
(* is the request with stream: true, no POST /chat) exactly when the       *)
(* streaming flag read at the call is true and onChunk is supplied;        *)
(* otherwise exactly one POST /chat and no EventSource.                    *)
(***************************************************************************)
C1_Dispatch ==
    \A i \in Calls :
        mode[i] # "idle" =>
            /\ Len(posts[i]) = 1
            /\ IF args[i].streamResponses /\ args[i].onChunk
               THEN /\ mode[i] = "stream"
                    /\ eventSource[i].created
                    /\ \E e \in Endpoints : eventSource[i].url = e \o "/chat/stream"
                    /\ posts[i][1].path = "/chat/stream/init"
                    /\ posts[i][1].body.message = args[i].request.message
                    /\ posts[i][1].body.stream = {TRUE}
               ELSE /\ mode[i] = "sync"
                    /\ ~eventSource[i].created
                    /\ posts[i][1].path = "/chat"

\* a streaming invocation that ran to its end, and its init request answered
C1_Witness ==
    \E i \in Calls :
        /\ mode[i] = "stream" /\ post[i] = "resolved"
        /\ promise[i].state = "resolved" /\ Len(received[i]) >= 2

(***************************************************************************)
(* C2: when the events of a stream are content envelopes c1..cn followed   *)
(* by a done envelope, the promise is resolved with content c1+...+cn and  *)
(* onChunk was invoked exactly n times, with c1..cn in that order.         *)
(***************************************************************************)
OnlyContentThenDone(evs) ==
    /\ evs # <<>>
    /\ IsDone(Last(evs))
    /\ \A k \in 1..(Len(evs) - 1) : IsContent(evs[k])

C2_ContentThenDone ==
    \A i \in Calls :
        OnlyContentThenDone(received[i]) =>
            /\ promise[i].state = "resolved"
            /\ promise[i].value.content = Concat(ContentsOf(received[i]))
            /\ chunkCalls[i] = ContentsOf(received[i])

(***************************************************************************)
(* C3: every action envelope of a stream is appended to actions and, when  *)
(* an action callback is supplied, forwarded to it, in arrival order; a    *)
(* resolved response carries the received actions in arrival order.        *)
(***************************************************************************)
C3_ActionsKept ==
    \A i \in Calls :
        mode[i] = "stream" =>
            /\ actions[i] = ActionsOf(received[i])
            /\ args[i].onAction => actionCalls[i] = ActionsOf(received[i])
            /\ promise[i].state = "resolved" =>
                   promise[i].value.actions = ActionsOf(received[i])

(***************************************************************************)
(* C4: back-pressure: no event of a stream is handled while the work of    *)
(* an earlier onAction invocation of that stream is still in progress, so  *)
(* two action handlers are never in progress together.                     *)
(***************************************************************************)
C4_BackPressure ==
    [][\A i \in Calls :
          /\ Handles(i) => running[i] = {}
          /\ Cardinality(running'[i]) <= 1]_vars

(***************************************************************************)
(* C5: the step that handles a done envelope closes the EventSource and    *)
(* leaves the promise resolved with the content and actions accumulated    *)
(* at that moment.                                                         *)
(***************************************************************************)
C5_DoneResolves ==
    [][\A i \in Calls :
          (Handles(i) /\ IsDone(Last(received'[i]))) =>
              /\ eventSource'[i].closed
              /\ promise'[i] = Resolved([content |-> fullContent[i],
                                         actions |-> actions[i]])]_vars

(***************************************************************************)
(* C6: once the promise of a streaming invocation is settled, its outcome  *)
(* never changes, no callback is invoked any more and the accumulator is   *)
(* not modified.                                                           *)
(***************************************************************************)
C6_TerminalAbsorbing ==
    [][\A i \in Calls :
          (mode[i] = "stream" /\ Settled(promise[i])) =>
              /\ promise'[i] = promise[i]
              /\ chunkCalls'[i] = chunkCalls[i]
              /\ actionCalls'[i] = actionCalls[i]
              /\ fullContent'[i] = fullContent[i]
              /\ actions'[i] = actions[i]]_vars

(***************************************************************************)
(* C7: the step in which the EventSource reports an error leaves the       *)
(* promise rejected with 'Stream connection failed' and the EventSource    *)
(* closed; a closed EventSource stays closed (no reconnect).               *)
(***************************************************************************)
\* the EventSource of stream i is closed by a step that handles no event
ErrorStep(i) ==
    /\ Dispatching(eventSource[i])
    /\ eventSource'[i].closed
    /\ received'[i] = received[i]

C7_StreamError ==
    [][\A i \in Calls :
          /\ ErrorStep(i) => promise'[i] = Rejected(StreamFailed)
          /\ eventSource[i].closed => eventSource'[i] = eventSource[i]]_vars

(***************************************************************************)
(* C8: the step in which POST /chat/stream/init fails leaves a promise     *)
(* that was pending rejected, and leaves the EventSource of the            *)
(* invocation closed.                                                      *)
(***************************************************************************)
C8_InitFailureCloses ==
    [][\A i \in Calls :
          (mode[i] = "stream" /\ post[i] = "pending" /\ post'[i] = "rejected") =>
              /\ promise[i] = Pending => promise'[i].state = "rejected"
              /\ eventSource'[i].closed]_vars

(***************************************************************************)
(* C9: the step that handles an event which is not valid JSON, or whose    *)
(* type is not content, action or done, changes neither the promise nor    *)
(* the EventSource (it stays open) nor content nor actions and invokes no  *)
(* callback; and a content envelope handled after such an event is         *)
(* appended and passed to onChunk as usual.                                *)
(***************************************************************************)
SomeSkipped(evs) == \E k \in 1..Len(evs) : IsSkipped(evs[k])

C9_SkipMalformed ==
    [][\A i \in Calls :
          /\ (Handles(i) /\ IsSkipped(Last(received'[i]))) =>
                /\ promise'[i] = promise[i]
                /\ eventSource'[i] = eventSource[i]
                /\ Dispatching(eventSource'[i])
                /\ fullContent'[i] = fullContent[i]
                /\ actions'[i] = actions[i]
                /\ chunkCalls'[i] = chunkCalls[i]
                /\ actionCalls'[i] = actionCalls[i]
          /\ (Handles(i) /\ SomeSkipped(received[i]) /\ IsContent(Last(received'[i]))) =>
                /\ fullContent'[i] = fullContent[i] \o Last(received'[i]).value.content
                /\ chunkCalls'[i] = Append(chunkCalls[i], Last(received'[i]).value.content)]_vars

\* a malformed event and an unknown type were skipped, then content arrived
C9_Witness ==
    \E i \in Calls :
        /\ Len(received[i]) = 3
        /\ ~received[i][1].json
        /\ received[i][2].json /\ TypeOf(received[i][2].value) = "ping"
        /\ IsContent(received[i][3])
        /\ fullContent[i] = received[i][3].value.content
        /\ Dispatching(eventSource[i])

(***************************************************************************)
(* C10: the accumulated content is always the concatenation, in arrival    *)
(* order, of the content chunks handled so far, and every step leaves it   *)
(* unchanged or appends one chunk at its end.                              *)
(***************************************************************************)
C10_ContentGrows ==
    /\ [](\A i \in Calls : fullContent[i] = Concat(ContentsOf(received[i])))
    /\ [][\A i \in Calls :
             \/ fullContent'[i] = fullContent[i]
             \/ \E c \in Chunks : fullContent'[i] = fullContent[i] \o c]_vars

\* two different chunks were appended in their arrival order
C10_Witness ==
    \E i \in Calls :
        /\ Len(chunkCalls[i]) = 2
        /\ chunkCalls[i][1] # chunkCalls[i][2]
        /\ fullContent[i] = chunkCalls[i][1] \o chunkCalls[i][2]

(***************************************************************************)
(* C11: an invocation in synchronous mode issues exactly one request,      *)
(* POST /chat, whose body is the request with stream: false whatever       *)
(* stream value the request held; and the step in which the backend        *)
(* answers resolves the promise with the response body as it is.           *)
(***************************************************************************)
C11_SyncRoundTrip ==
    /\ [](\A i \in Calls :
             mode[i] = "sync" =>
                 /\ Len(posts[i]) = 1
                 /\ posts[i][1].path = "/chat"
                 /\ posts[i][1].body = [message |-> args[i].request.message,
                                        stream |-> {FALSE}])
    /\ [][\A i \in Calls, data \in ChatResponses :
             chatPostResolved(i, data) => promise'[i] = Resolved(data)]_vars

\* a request that asked for streaming went out with stream: false and was
\* answered with a body that carries an action
C11_Witness ==
    \E i \in Calls :
        /\ mode[i] = "sync" /\ args[i].request.stream = {TRUE}
        /\ posts[i][1].body.stream = {FALSE}
        /\ promise[i].state = "resolved" /\ promise[i].value.actions # <<>>

(***************************************************************************)
(* C12: for every method of the client (sendChatMessage in both modes,     *)
(* checkPolicies, executePlaybookStep), the step in which its request      *)
(* fails leaves the pending promise of the call rejected with the          *)
(* method's message prefix followed by the cause, and issues no further    *)
(* request; a call of sendChatMessage issues one request.                  *)
(***************************************************************************)
\* the message prefix of the method that posts to path
MethodPrefix(path) ==
    IF path = "/policy/check" THEN "Failed to check policies: "
    ELSE IF path = "/playbook/execute" THEN "Failed to execute playbook step: "
    ELSE "Failed to send chat message: "

Wrapped(path) == {MethodPrefix(path) \o ErrorString(err) : err \in PostErrors}

C12_FailureWrapped ==
    /\ [](\A i \in Calls : Len(posts[i]) <= 1)
    /\ [][/\ \A i \in Calls :
                (post[i] = "pending" /\ post'[i] = "rejected" /\ promise[i] = Pending) =>
                    /\ promise'[i].state = "rejected"
                    /\ promise'[i].error \in Wrapped(Last(posts[i]).path)
                    /\ posts' = posts /\ toolPosts' = toolPosts
          /\ \A a \in ToolAdapters :
                (toolPromise[a] = Pending /\ toolPromise'[a] # Pending) =>
                    \/ toolPromise'[a].state = "resolved"
                    \/ /\ toolPromise'[a].state = "rejected"
                       /\ toolPromise'[a].error \in Wrapped(Last(toolPosts[a]).path)
                       /\ posts' = posts /\ toolPosts' = toolPosts]_vars

(***************************************************************************)
(* C13: every HTTP request the client issues is addressed to the endpoint  *)
(* of the Configuration held when it is issued and, when the held          *)
(* credential is not empty, carries Authorization: Bearer <credential>;    *)
(* this from construction onwards and after every refresh.                 *)
(***************************************************************************)
\* the request the step issues at the end of the sequence of requests
IssuedIn(reqs, reqsNext) == Len(reqsNext) = Len(reqs) + 1

FollowsConfig(req) ==
    /\ req.baseURL = config.apiEndpoint
    /\ config.apiKey # "" => req.authorization = "Bearer " \o config.apiKey

C13_RequestsFollowConfig ==
    [][/\ \A i \in Calls :
             IssuedIn(posts[i], posts'[i]) => FollowsConfig(Last(posts'[i]))
       /\ \A a \in ToolAdapters :
             IssuedIn(toolPosts[a], toolPosts'[a]) => FollowsConfig(Last(toolPosts'[a]))]_vars

(***************************************************************************)
(* C14: the step of updateConfiguration under settings whose credential    *)
(* is empty or not set leaves the Authorization header of the shared       *)
(* client empty, whatever it held before.                                  *)
(***************************************************************************)
C14_EmptyCredentialClears ==
    [][\A s \in ConfigSettings :
          (updateConfiguration(s) /\ Get(s.apiKey, DefaultApiKey) = "") =>
              client'.authorization \in {"", NotSet}]_vars

\* a request went out with a bearer token, and the header is empty now
C14_Witness ==
    /\ posts[AdapterCall] # <<>>
    /\ posts[AdapterCall][1].authorization = "Bearer new-test-key"
    /\ client.authorization = ""
    /\ config.apiKey = ""

(***************************************************************************)
(* C15: when the held credential is empty, the requests the client         *)
(* issues and the stream connection it opens carry no Authorization        *)
(* header (not a header with the empty string as its value).               *)
(***************************************************************************)
C15_NoHeaderWithoutCredential ==
    [][config.apiKey = "" =>
          /\ \A i \in Calls :
                /\ IssuedIn(posts[i], posts'[i]) =>
                       Last(posts'[i]).authorization = NotSet
                /\ (~eventSource[i].created /\ eventSource'[i].created) =>
                       eventSource'[i].authorization = NotSet
          /\ \A a \in ToolAdapters :
                IssuedIn(toolPosts[a], toolPosts'[a]) =>
                    Last(toolPosts'[a]).authorization = NotSet]_vars

(***************************************************************************)
(* C16: the step of updateConfiguration leaves a Configuration whose       *)
(* endpoint, credential and streaming flag are what the settings return    *)
(* at that moment, with https://api.codessa.dev, the empty credential and  *)
(* true for the keys that are not set, and nothing of the Configuration    *)
(* held before; and a call reads all it takes from the Configuration from  *)
(* the one held when it is made.                                           *)
(***************************************************************************)
TheValue(setting) == CHOOSE v \in setting : TRUE

C16_WholesaleReplace ==
    [][/\ \A s \in ConfigSettings :
             updateConfiguration(s) =>
                 /\ config'.apiEndpoint = IF s.apiEndpoint = {} THEN "https://api.codessa.dev"
                                          ELSE TheValue(s.apiEndpoint)
                 /\ config'.apiKey = IF s.apiKey = {} THEN "" ELSE TheValue(s.apiKey)
                 /\ config'.streamResponses = IF s.streamResponses = {} THEN TRUE
                                              ELSE TheValue(s.streamResponses)
       /\ \A i \in Calls :
             (mode[i] = "idle" /\ mode'[i] # "idle") =>
                 /\ args'[i].streamResponses = config.streamResponses
                 /\ mode'[i] = "stream" =>
                        /\ eventSource'[i].url = config.apiEndpoint \o "/chat/stream"
                        /\ eventSource'[i].authorization =
                               IF config.apiKey = "" THEN ""
                               ELSE "Bearer " \o config.apiKey]_vars

\* a streaming call read the defaults, then a refresh replaced all three
\* fields
C16_Witness ==
    /\ mode[AdapterCall] = "stream"
    /\ args[AdapterCall].streamResponses
    /\ eventSource[AdapterCall].url = "https://api.codessa.dev/chat/stream"
    /\ eventSource[AdapterCall].authorization = ""
    /\ config = [apiEndpoint |-> "https://new-api.codessa.dev",
                 apiKey |-> "new-test-key", streamResponses |-> FALSE]

(***************************************************************************)
(* C17: after a step of updateConfiguration, one more updateConfiguration  *)
(* under the same settings would change neither the held Configuration     *)
(* nor the base URL and headers of the shared client, on the desktop and   *)
(* on the web.                                                             *)
(***************************************************************************)
C17_RefreshIdempotent ==
    [][\A s \in ConfigSettings :
          updateConfiguration(s) =>
              /\ ReadConfig(s) = config'
              /\ Refreshed(client', s, isWeb') = client']_vars

\* refreshed on the web: the web endpoint, the token and the CORS headers
\* are in place
C17_WebWitness ==
    /\ isWeb /\ client.cors
    /\ client.baseURL = "https://web.codessa.dev"
    /\ client.authorization = "Bearer new-test-key"

(***************************************************************************)
(* C18: the step of updateConfiguration under settings whose endpoint is   *)
(* malformed leaves the endpoint held before or the default endpoint in    *)
(* the Configuration, not the malformed value.                             *)
(***************************************************************************)
C18_MalformedFallsBack ==
    [][\A s \in ConfigSettings :
          (updateConfiguration(s) /\ s.apiEndpoint = {MalformedEndpoint}) =>
              config'.apiEndpoint \in {config.apiEndpoint, DefaultEndpoint}]_vars

(***************************************************************************)
(* C19: for every adapter (chat request handler, AI-assist and             *)
(* policy-check handlers of the editor panel, document policy check,       *)
(* notebook cell execution), the step in which the handler resumes after   *)
(* its call of the client was rejected completes the handler and renders   *)
(* an error message with the message of the rejection in the adapter's     *)
(* own surface (a new item where the surface is appended to); no handler   *)
(* ever throws to the host.                                                *)
(***************************************************************************)
ErrorKinds == {"error", "ai-error", "policy-error"}

\* the texts that show the message e of a rejection
ErrorTexts(e) == {e, "**Error**: " \o e, "Failed to check policies: Error: " \o e}

\* the handler of adapter a resumes after a rejected call
ResumesRejected(a) ==
    /\ handler[a] = "awaiting"
    /\ handler'[a] # "awaiting"
    /\ Awaited(a).state = "rejected"

C20_FailedCheckClears ==
    [][ResumesRejected("documentCheck") =>
           /\ handler'["documentCheck"] = "completed"
           /\ diagnostics'[CheckedUri] \in {NotPublished, Published(<<>>)}]_vars

(***************************************************************************)
(* C21: when the loop of the bulk scan finds the token cancelled, that     *)
(* step starts no check, issues no request, leaves the published           *)
(* diagnostics as they are, shows no notification and returns from the     *)
(* scan; a scan that has returned never does anything again, and a scan    *)
(* that returned cancelled has not shown the 'completed' notification.     *)
(***************************************************************************)
CompletedShown(s) ==
    \E k \in 1..Len(s.notifications) : s.notifications[k].kind = "info"

\* the scan takes a step at the head of its loop with the token cancelled
ObservesCancellation ==
    scan.state = "loop" /\ scan.cancelled /\ scan' # scan

C21_CancelStops ==
    /\ [](scan.state = "returned" /\ scan.cancelled => ~CompletedShown(scan))
    /\ [][ObservesCancellation =>
               /\ scan'.state = "returned"
               /\ scan'.invoked = scan.invoked
               /\ scan'.notifications = scan.notifications
               /\ UNCHANGED <<toolPosts, toolPromise, handler, diagnostics>>]_vars
    /\ [][scan.state = "returned" => scan' = scan]_vars

\* a scan cancelled after its first file was checked and its diagnostics
\* published, with a file left that was never checked
C21_Witness ==
    /\ scan.state = "returned" /\ scan.cancelled
    /\ Len(scan.invoked) = 1 /\ Len(scan.files) = 2
    /\ diagnostics[scan.files[1].uri].published
    /\ Len(toolPosts["documentCheck"]) = 1

(***************************************************************************)
(* C28: the step in which checkDocumentPolicies resumes after a policy     *)
(* check that resolved with the violations V completes the handler         *)
(* without an error message and leaves, as the entry of the checked        *)
(* document, exactly one diagnostic for each element of V, in the order    *)
(* of V, whatever the entry was before (an empty V gives an empty list);   *)
(* the entries of the other documents are not touched.                     *)
(***************************************************************************)
\* the handler of adapter a resumes after a resolved call
ResumesResolved(a) ==
    /\ handler[a] = "awaiting"
    /\ handler'[a] # "awaiting"
    /\ Awaited(a).state = "resolved"

\* the diagnostic d reports the violation v
Reports(d, v) ==
    /\ d.code = v.rule
    /\ d.range[1] = v.line - 1 /\ d.range[2] = v.column - 1
    /\ d.message = "[" \o v.rule \o "] " \o v.message
    /\ d.source = "GitGuard"

C28_DiagnosticsReplaced ==
    [][ResumesResolved("documentCheck") =>
           LET V == Awaited("documentCheck").value
               entry == diagnostics'[CheckedUri]
           IN /\ handler'["documentCheck"] = "completed"
              /\ surface'["documentCheck"] = surface["documentCheck"]
              /\ entry.published
              /\ Len(entry.diagnostics) = Len(V)
              /\ \A k \in 1..Len(V) : Reports(entry.diagnostics[k], V[k])
              /\ \A u \in Uris \ {CheckedUri} : diagnostics'[u] = diagnostics[u]]_vars

\* the second check of the same document has replaced one diagnostic by
\* two
C28_Witness ==
    /\ Len(toolPosts["documentCheck"]) = 2
    /\ toolPosts["documentCheck"][1].body.filePath = toolPosts["documentCheck"][2].body.filePath
    /\ handler["documentCheck"] = "completed"
    /\ toolPromise["documentCheck"].state = "resolved"
    /\ Len(toolPromise["documentCheck"].value) = 2
    /\ Len(diagnostics[CheckedUri].diagnostics) = 2
    /\ diagnostics[CheckedUri].diagnostics[1].severity = "Warning"

(***************************************************************************)
(* C29: a bulk scan that ran its loop and returned without cancellation    *)
(* has invoked checkDocumentPolicies exactly once for every discovered     *)
(* document, in discovery order, and has shown the notification            *)
(* 'Policy check completed' with the number of discovered documents.       *)
(***************************************************************************)
UrisOf(docs) == [k \in 1..Len(docs) |-> docs[k].uri]

\* the scan went through its loop to the end
RanToEnd(s) ==
    /\ s.state = "returned" /\ ~s.cancelled
    /\ \A k \in 1..Len(s.notifications) : s.notifications[k].kind # "warning"

ReportsAll(s) ==
    /\ s.completed = Len(s.files)
    /\ s.notifications = <<[kind |-> "info", text |-> CompletedText(Len(s.files))]>>

Opened(s) == SelectSeq(UrisOf(s.files), LAMBDA u : \A k \in 1..Len(s.logged) : s.logged[k] # u)

FileUris == {d.uri : d \in {e \in Documents : e.scheme = "file"}}

Unparseable(cell) ==
    \/ cell.languageId \notin {"json", "yaml"}
    \/ cell.languageId = "json" /\ ~cell.text.json

\* an execution is created in this step
Executes == Len(executions') = Len(executions) + 1

ParseableExecutions == {k \in 1..Len(executions) : ~Unparseable(executions[k].cell)}

C22_UnparseableNotSent ==
    /\ [](Len(toolPosts["cell"]) <= Cardinality(ParseableExecutions))
    /\ [][Executes /\ Unparseable(Last(executions').cell) =>
              /\ toolPosts' = toolPosts /\ toolPromise' = toolPromise
              /\ Last(executions').state = "failed"
              /\ surface'["cell"] =
                     <<[kind |-> "error", text |-> "Invalid step definition"]>>]_vars

\* a request with a cell of invalid JSON and a markdown cell has returned:
\* two failed executions, nothing sent
C22_Witness ==
    /\ ~notebook.active
    /\ notebook.cells = <<InvalidJsonCell, MarkdownCell>>
    /\ Len(executions) = 2
    /\ executions[1].state = "failed" /\ executions[2].state = "failed"
    /\ toolPosts["cell"] = <<>>

(***************************************************************************)
(* C23: the step that creates the execution of a cell that parses to a     *)
(* definition whose type is not plan, search, edit, test or analyze, or    *)
(* that has no input, issues no request and ends the execution as failed.  *)
(***************************************************************************)
StepTypes == {"plan", "search", "edit", "test", "analyze"}

IllShaped(cell) ==
    /\ ~Unparseable(cell)
    /\ LET def == IF cell.languageId = "json" THEN cell.text.value ELSE cell.text.pairs
       IN \/ "type" \notin DOMAIN def
          \/ def.type \notin StepTypes
          \/ "input" \notin DOMAIN def

C23_IllShapedNotSent ==
    [][Executes /\ IllShaped(Last(executions').cell) =>
          /\ toolPosts' = toolPosts
          /\ Last(executions').state = "failed"]_vars

(***************************************************************************)
(* C24: the executions of one request are created in the order of its      *)
(* cells, an execution is created (and its request issued) only when       *)
(* every earlier one has ended, and the request returns only when every    *)
(* cell was executed, whether the earlier cells failed or not.             *)
(***************************************************************************)
C24_CellsInOrder ==
    /\ Len(executions) <= Len(notebook.cells)
    /\ \A k \in 1..Len(executions) :
          /\ executions[k].cell = notebook.cells[k]
          /\ executions[k].order = k
          /\ k < Len(executions) => executions[k].state # "running"
    /\ Len(toolPosts["cell"]) <= Len(executions)
    /\ (~notebook.active /\ notebook.cells # <<>>) =>
          /\ Len(executions) = Len(notebook.cells)
          /\ Last(executions).state # "running"

\* the request has returned after a first cell that the backend failed
\* and a second cell that succeeded
C24_Witness ==
    /\ ~notebook.active
    /\ Len(notebook.cells) = 2 /\ Len(executions) = 2
    /\ executions[1].state = "failed" /\ ~Unparseable(executions[1].cell)
    /\ executions[2].state = "succeeded"
    /\ Len(toolPosts["cell"]) = 2

(***************************************************************************)
(* C25: every message posted to a panel answers a request of that panel's  *)
(* own webview; every panel that is open is the entry of its own id in     *)
(* the panel map; the disposal of a panel leaves the entries of the        *)
(* other open panels in place.                                             *)
(***************************************************************************)
Open(p) == webviews[p].created /\ ~webviews[p].disposed

C25_RoutedToOrigin ==
    /\ [](\A p \in PanelObjects :
             /\ \A k \in 1..Len(webviews[p].posted) : webviews[p].posted[k].origin = p
             /\ Open(p) => panels[webviews[p].panelId] = p)
    /\ [][\A p, q \in PanelObjects :
             (p # q /\ Open(p) /\ Open(q) /\ ~Open(p)' /\ Open(q)') =>
             \E id \in PanelIds : panels[id] = q /\ panels'[id] = q]_vars

(***************************************************************************)
(* C26: the step in which the extension is deactivated (the chat           *)
(* participant and the client are disposed) leaves no EventSource open.    *)
(***************************************************************************)
C26_DisposeClosesStreams ==
    [][(disposed = {} /\ disposed' # {}) =>
          \A i \in Calls : eventSource'[i].created => eventSource'[i].closed]_vars

(***************************************************************************)
(* C27: a step in which the stream of one invocation handles an event,     *)
(* fails or is settled changes nothing of another invocation: not its      *)
(* content, its actions, the calls of its callbacks, its promise or its    *)
(* connection; the content and the chunks of every stream are those of     *)
(* the events its own connection received.                                 *)
(***************************************************************************)
\* the closure variables, the callbacks, the promise and the connection of
\* invocation j
StreamOf(j) ==
    <<fullContent[j], actions[j], chunkCalls[j], actionCalls[j], running[j],
      promise[j], eventSource[j], received[j]>>

\* the stream of invocation i takes a step
Steps(i) ==
    \/ received'[i] # received[i]
    \/ promise'[i] # promise[i]
    \/ eventSource'[i] # eventSource[i]

C27_StreamsIndependent ==
    /\ [](\A i \in Calls :
             mode[i] = "stream" =>
                 /\ fullContent[i] = Concat(ContentsOf(received[i]))
                 /\ chunkCalls[i] = ContentsOf(received[i])
                 /\ actionCalls[i] = ActionsOf(received[i]))
    /\ [][\A i, j \in Calls :
             (i # j /\ Steps(i) /\ mode[i] = "stream" /\ mode[j] = "stream"
                  /\ disposed' = disposed)
                 => StreamOf(j)' = StreamOf(j)]_vars

\* the first stream is done and closed with its own content while the
\* second one, which received an action and no content, is still open
C27_Witness ==
    /\ promise[1].state = "resolved" /\ promise[1].value.content = "Hello! "
    /\ eventSource[1].closed
    /\ mode[2] = "stream" /\ promise[2].state = "pending"
    /\ Dispatching(eventSource[2])
    /\ fullContent[2] = "" /\ Len(actions[2]) = 1

(***************************************************************************)
(* C31: on the web, for every document the bulk scan has counted as        *)
(* checked, exactly one request POST /policy/check was issued for that     *)
(* document and, unless a check failed, the document has its entry in the  *)
(* diagnostic collection.                                                  *)
(***************************************************************************)
\* the requests issued for the document of the uri u
RequestsFor(u) ==
    {k \in 1..Len(toolPosts["documentCheck"]) :
        toolPosts["documentCheck"][k].body.filePath = u}

C31_WebScanChecksOpenDocuments ==
    isWeb =>
        \A k \in 1..scan.completed :
            /\ Cardinality(RequestsFor(scan.files[k].uri)) = 1
            /\ surface["documentCheck"] = <<>> =>
                   diagnostics[scan.files[k].uri].published

(***************************************************************************)
(* C32: the step in which an ai-assist or policy-check message of an open  *)
(* panel is received starts exactly one call of the client (POST /chat or  *)
(* POST /policy/check) on behalf of that panel; the step in which that     *)
(* call settles posts exactly one message, to that panel and to no other,  *)
(* with the requestId of the request: ai-response or policy-violations     *)
(* when the call resolved, ai-error or policy-error when it was rejected.  *)
(***************************************************************************)
RequestTypes == {"ai-assist", "policy-check"}

\* the reply to a request of the given type
ReplyType(type, resolved) ==
    IF type = "ai-assist"
    THEN IF resolved THEN "ai-response" ELSE "ai-error"
    ELSE IF resolved THEN "policy-violations" ELSE "policy-error"

\* the handler of the request of panel p resumes after its call
Replies(p) == panelCalls[p] # NoCall /\ panelCalls'[p] = NoCall

\* exactly one message is posted in this step, to the panel p
PostsOneTo(p) ==
    /\ \A q \in PanelObjects \ {p} : webviews'[q].posted = webviews[q].posted
    /\ Len(webviews'[p].posted) = Len(webviews[p].posted) + 1
    /\ SubSeq(webviews'[p].posted, 1, Len(webviews[p].posted)) = webviews[p].posted

C32_OneCallOneReply ==
    /\ [][\A p \in PanelObjects, type \in RequestTypes :
             (Open(p) /\ handleWebviewMessage(p, type)) =>
                 /\ panelCalls'[p] # NoCall
                 /\ panelCalls'[p].state = "pending"
                 /\ panelCalls'[p].panel = p
                 /\ panelCalls'[p].path =
                        (IF type = "ai-assist" THEN "/chat" ELSE "/policy/check")
                 /\ \A q \in PanelObjects \ {p} : panelCalls'[q] = panelCalls[q]
                 /\ \A q \in PanelObjects : webviews'[q].posted = webviews[q].posted]_vars
    /\ [][\A p \in PanelObjects :
             Replies(p) =>
                 /\ PostsOneTo(p)
                 /\ Last(webviews'[p].posted).requestId = panelCalls[p].requestId
                 /\ Last(webviews'[p].posted).message \in
                        {ReplyType(panelCalls[p].type, TRUE),
                         ReplyType(panelCalls[p].type, FALSE)}]_vars
    /\ [][\A p \in PanelObjects :
             panelCallResolved(p) =>
                 \E q \in PanelObjects :
                     /\ webviews'[q].posted # webviews[q].posted
                     /\ Last(webviews'[q].posted).message =
                            ReplyType(panelCalls[p].type, TRUE)]_vars
    /\ [][\A p \in PanelObjects :
             panelCallRejected(p) =>
                 \E q \in PanelObjects :
                     /\ webviews'[q].posted # webviews[q].posted
                     /\ Last(webviews'[q].posted).message =
                            ReplyType(panelCalls[p].type, FALSE)]_vars

(***************************************************************************)
(* C33: the step in which a message of a disposed panel is received        *)
(* starts no call of the client, writes no file and posts no message;      *)
(* and no step posts a message to a panel that is disposed, the replies    *)
(* to the requests that were in progress at its disposal included.         *)
(***************************************************************************)
\* nothing is posted to the panel q in this step
NothingPostedTo(q) == webviews'[q].posted = webviews[q].posted

C33_DisposedPanelsSilent ==
    /\ [][\A p \in PanelObjects, type \in MessageTypes :
             (webviews[p].disposed /\ handleWebviewMessage(p, type)) =>
                 /\ panelCalls' = panelCalls
                 /\ \A q \in PanelObjects :
                       /\ NothingPostedTo(q)
                       /\ webviews'[q].written = webviews[q].written]_vars
    /\ [][\A q \in PanelObjects : webviews[q].disposed => NothingPostedTo(q)]_vars

(***************************************************************************)
(* C34: dispose() of the chat participant and of the notebook controller   *)
(* never throws, whether register() was called before it or not, and the   *)
(* step in which dispose() is called on a registered component disposes    *)
(* the participant or controller it holds.                                 *)
(***************************************************************************)
RegisteredAdapters == {"chatParticipant", "notebookController"}

\* dispose() of the component c is called in this step
Disposes(c) == c \notin disposed /\ c \in disposed'

C34_DisposeSafe ==
    /\ [](thrown \cap RegisteredAdapters = {})
    /\ [][\A c \in RegisteredAdapters :
             (Disposes(c) /\ held[c] = "live") => held'[c] = "disposed"]_vars

(***************************************************************************)
(* C35: while the work of an onAction handler of a stream is in progress,  *)
(* the promise of that streaming sendChatMessage is not resolved and the   *)
(* chat request handler has not returned.                                  *)
(***************************************************************************)
\* onAction handlers of invocation i that have not finished
InProgress(i) == running[i] # {}

C35_ActionsFinishedFirst ==
    /\ \A i \in Calls :
          (mode[i] = "stream" /\ promise[i].state = "resolved") => ~InProgress(i)
    /\ handler["chat"] = "completed" => ~InProgress(AdapterCall)

(***************************************************************************)
(* C36: for every streaming invocation, the URL of its EventSource is the  *)
(* base URL of its request POST /chat/stream/init followed by              *)
(* /chat/stream, on the desktop and on the web, whatever the settings      *)
(* were at the refreshes before the call.                                  *)
(***************************************************************************)
C36_StreamAndInitSameBase ==
    \A i \in Calls :
        mode[i] = "stream" =>
            /\ Len(posts[i]) = 1
            /\ posts[i][1].path = "/chat/stream/init"
            /\ eventSource[i].url = posts[i][1].baseURL \o "/chat/stream"

(***************************************************************************)
(* C37: when every check of a document that overlapping saves have         *)
(* started has returned and the one started last was answered, the entry   *)
(* of the document in the diagnostic collection is made of the violations  *)
(* of that last check, in whatever order the answers arrived.              *)
(***************************************************************************)
\* the checks of the document of the uri u, by their position in checks
ChecksOf(u) == {k \in 1..Len(checks) : checks[k].uri = u}

\* the check of u that was started last
LastCheckOf(u) == CHOOSE k \in ChecksOf(u) : \A j \in ChecksOf(u) : j <= k

AllReturned(u) == \A k \in ChecksOf(u) : checks[k].promise # Pending

C37_LastIssuedWins ==
    \A u \in Uris :
        (/\ ChecksOf(u) # {}
         /\ AllReturned(u)
         /\ checks[LastCheckOf(u)].promise.state = "resolved") =>
            diagnostics[u] =
                Published(ToDiagnostics(checks[LastCheckOf(u)].promise.value))

(***************************************************************************)
(* C38: end is called at most once on every execution, and an execution    *)
(* is running exactly until that call; whenever executeSingleCell is not   *)
(* suspended in its await, no execution is running; the step that ends an  *)
(* execution with success is the one resuming after a call that resolved   *)
(* with a step, and it writes the result as the cell output; the step      *)
(* that ends one with failure follows a cell without a step definition, a  *)
(* rejected call or an answer that cannot be displayed, and writes an      *)
(* error output; and once the call is settled the suspended execution is   *)
(* eventually ended.                                                       *)
(***************************************************************************)
\* the k-th execution is ended in this step, with the state st
EndsWith(k, st) ==
    /\ executions'[k].state = st
    /\ IF k <= Len(executions) THEN executions[k].state = "running" ELSE TRUE

\* the promise that executeSingleCell awaits is settled and the
\* continuation has not run yet
AnsweredCell ==
    handler["cell"] = "awaiting" /\ toolPromise["cell"].state \in {"resolved", "rejected"}

C38_EndedExactlyOnce ==
    /\ [](\A k \in 1..Len(executions) :
             /\ executions[k].ends <= 1
             /\ executions[k].state = "running" <=> executions[k].ends = 0)
    /\ [](handler["cell"] # "awaiting" =>
             \A k \in 1..Len(executions) : executions[k].state # "running")
    /\ [][\A k \in 1..Len(executions') :
             EndsWith(k, "succeeded") =>
                 /\ AnsweredCell
                 /\ toolPromise["cell"].state = "resolved"
                 /\ "type" \in DOMAIN toolPromise["cell"].value
                 /\ surface'["cell"] =
                        <<[kind |-> "result",
                           status |-> toolPromise["cell"].value.status]>>]_vars
    /\ [][\A k \in 1..Len(executions') :
             EndsWith(k, "failed") =>
                 /\ \/ Unparseable(executions'[k].cell)
                    \/ parseCellContent(executions'[k].cell) = JSNull
                    \/ AnsweredCell /\ toolPromise["cell"].state = "rejected"
                    \/ /\ AnsweredCell /\ toolPromise["cell"].state = "resolved"
                       /\ "type" \notin DOMAIN toolPromise["cell"].value
                 /\ Len(surface'["cell"]) = 1
                 /\ surface'["cell"][1].kind = "error"]_vars
    /\ (AnsweredCell ~> handler["cell"] = "completed")

\* a request of two cells has returned: the first execution failed because
\* its answer could not be displayed, the second succeeded; each was ended
\* once
C38_Witness ==
    /\ ~notebook.active
    /\ Len(executions) = 2
    /\ executions[1].state = "failed" /\ executions[1].ends = 1
    /\ ~Unparseable(executions[1].cell)
    /\ executions[2].state = "succeeded" /\ executions[2].ends = 1
    /\ surface["cell"] = <<[kind |-> "result", status |-> "completed"]>>


\* C39: the execution order numbers of one controller are strictly
\* increasing in the order in which the executions start and never repeat,
\* also while several execute requests are in progress: every execution
\* has a number above the numbers of all executions started before it, and
\* a step that starts an execution gives it a number above every number
\* given so far.
C39_OrdersIncrease ==
    /\ \A j, k \in 1..Len(executions) :
           j < k => executions[j].order < executions[k].order
    /\ \A k \in 1..Len(executions) :
           executions[k].order >= 1 /\ executions[k].order <= executionOrder

\* two requests are suspended in an await at once, and the request that
\* started later holds the execution with the higher number
C39_Witness ==
    /\ requests[1].state = "awaiting"
    /\ requests[2].state = "awaiting"
    /\ requests[1].started = 1
    /\ requests[2].awaits < requests[1].awaits
    /\ Len(executions) = 3
    /\ executions[3].order = 3

====
